---- MODULE Spec2Model ----
(***************************************************************************)
(* A model of the cgminer-family API client of avalon-stats:               *)
(*   MinerAPI (src/MinerAPI.py)  - the TCP connection and the framing      *)
(*   CGMiner  (src/Miners.py and the older copy in src/MinerAPI.py)        *)
(*            - api_command, execute_command, _handle_response,            *)
(*              detect_miner_type                                          *)
(* Time is counted in clock ticks.  The device, the network, the select()  *)
(* probe and the keyboard are the environment: their answers are chosen    *)
(* with \E from small sets.                                                *)
(***************************************************************************)
EXTENDS Integers, Sequences, FiniteSets, TLC

(***************************************************************************)
(* Bounds of the model                                                     *)
(***************************************************************************)
\* the longest time, in ticks, one send/wait/receive round trip takes
MaxIoTime == 2
\* the longest time, in ticks, time.sleep() returns late
MaxOversleep == 1
\* how many requests per socket are counted before the count saturates
MaxSent == 2
\* how many retries one invocation is followed for
MaxAttempts == 6
\* the deadline, in ticks, of the invocation whose backoff sequence is followed
\* up to the cap of max_delay
LongDeadline == 2100

(***************************************************************************)
(* Program constants                                                       *)
(***************************************************************************)
\* execute_command(max_delay=60)
DefaultMaxDelay == 60
\* execute_command(initial_delay_short=1)
DefaultDelayShort == 1
\* execute_command(initial_delay_long=10)
DefaultDelayLong == 10

Min(a, b) == IF a <= b THEN a ELSE b

(***************************************************************************)
(* MinerException and its error types (MinerAPI.py 17-55)                  *)
(***************************************************************************)
FATAL == "fatal"
RETRY_SHORT == "retry_short"
RETRY_LONG == "retry_long"

\* a bug that also retries fatal errors
is_retryable_all(error_type) == error_type \in {RETRY_SHORT, RETRY_LONG, FATAL}

\* MinerException.is_retryable
is_retryable(error_type) == error_type \in {RETRY_SHORT, RETRY_LONG}

\* an exception object: its class, its error_type (MinerException only) and
\* what its message says
Exc(type, error_type, msg) == [error_type |-> error_type, type |-> type, msg |-> msg]
NoExc == Exc("none", "none", "none")
\* MinerException(message, error_type=FATAL)
MinerException(msg, error_type) == Exc("MinerException", error_type, msg)
RuntimeError(msg) == Exc("RuntimeError", "none", msg)
OSError(msg) == Exc("OSError", "none", msg)
KeyError(msg) == Exc("KeyError", "none", msg)
\* sys.exit(n) raises SystemExit(n)
SystemExit(msg) == Exc("SystemExit", "none", msg)
KeyboardInterrupt == Exc("KeyboardInterrupt", "none", "interrupt")

(***************************************************************************)
(* The connection (MinerAPI.py 87-134).  self.conn is None ("none"), a     *)
(* socket whose connect() failed ("created": the descriptor is valid but   *)
(* there is no peer), a connected socket ("open") or a socket that was     *)
(* closed ("closed": fileno() is -1).                                      *)
(***************************************************************************)
\* a bug: close() that forgets to close the socket
close_noop(c) == c

\* MinerAPI.close: if self.conn: self.conn.close()
close(c) == IF c = "none" THEN c ELSE "closed"

\* what the probe of is_connected does on a socket with a valid descriptor:
\* select() reports it writable, reports nothing, or raises
Probes == {"writable", "not writable", "OSError", "ValueError"}

\* a bug: a socket object is taken to be a connection
is_connected_any_socket(c, probe) == c # "none"

\* MinerAPI.is_connected (MinerAPI.py 114-130): False without a socket and
\* for fileno() == -1, else bool(writable) of a zero-timeout select, False
\* if the probe raises
is_connected(c, probe) ==
    IF c = "none" THEN FALSE
    ELSE IF c = "closed" THEN FALSE
    ELSE IF probe \in {"OSError", "AttributeError", "ValueError"} THEN FALSE
    ELSE probe = "writable"


(***************************************************************************)
(* What the device puts on the wire and what get_resp decodes from it      *)
(* (MinerAPI.py 149-187).  A decoded value is None, a dict carrying the    *)
(* envelope of one command, or a dict keyed by the tokens of a combined    *)
(* command, each value a list.                                             *)
(***************************************************************************)
None == [t |-> "None"]
\* Python values: a str, an int
PyStr(s) == [t |-> "str", s |-> s]
PyInt(n) == [t |-> "int", n |-> n]
\* {} : valid JSON, and false in a Python condition
EmptyDict == [msg |-> "-", t |-> "dict", empty |-> TRUE, hasStatus |-> FALSE,
              sev |-> "-", code |-> 0, blocks |-> {}, version |-> "-"]
\* a non-empty dict without the STATUS key
NoStatusDict == [msg |-> "-", t |-> "dict", empty |-> FALSE, hasStatus |-> FALSE,
                 sev |-> "-", code |-> 0, blocks |-> {"SUMMARY"}, version |-> "-"]
\* {"STATUS":[{"STATUS":sev,"Code":code,"Msg":msg}], block: ..., ...}
Envelope(sev, code, msg, blocks) ==
    [msg |-> msg, t |-> "dict", empty |-> FALSE, hasStatus |-> TRUE, sev |-> sev,
     code |-> code, blocks |-> blocks, version |-> "-"]

\* the messages the device is taken to report
Msgs == {"Not Ready", "miner disconnected", "Disconnected, not ready",
         "Invalid command", "OK"}
\* more messages, given to the classifier alone
MoreMsgs == {"NOT READY", "not ready", "DISCONNECTED", "Notready"}

\* the characters of a string
Text(s) ==
    CASE s = "Not Ready" -> <<"N", "o", "t", " ", "R", "e", "a", "d", "y">>
      [] s = "miner disconnected" -> <<"m", "i", "n", "e", "r", " ", "d", "i", "s", "c", "o", "n", "n", "e", "c", "t", "e", "d">>
      [] s = "Disconnected, not ready" -> <<"D", "i", "s", "c", "o", "n", "n", "e", "c", "t", "e", "d", ",", " ", "n", "o", "t", " ", "r", "e", "a", "d", "y">>
      [] s = "Invalid command" -> <<"I", "n", "v", "a", "l", "i", "d", " ", "c", "o", "m", "m", "a", "n", "d">>
      [] s = "OK" -> <<"O", "K">>
      [] s = "NOT READY" -> <<"N", "O", "T", " ", "R", "E", "A", "D", "Y">>
      [] s = "not ready" -> <<"n", "o", "t", " ", "r", "e", "a", "d", "y">>
      [] s = "DISCONNECTED" -> <<"D", "I", "S", "C", "O", "N", "N", "E", "C", "T", "E", "D">>
      [] s = "Notready" -> <<"N", "o", "t", "r", "e", "a", "d", "y">>
      [] s = "Not ready" -> <<"N", "o", "t", " ", "r", "e", "a", "d", "y">>
      [] s = "Disconnected" -> <<"D", "i", "s", "c", "o", "n", "n", "e", "c", "t", "e", "d">>

\* re.IGNORECASE: a letter and its other case are the same
lower(c) ==
    LET UpperCase == <<"A", "B", "C", "D", "E", "F", "G", "H", "I", "J", "K", "L", "M",
                       "N", "O", "P", "Q", "R", "S", "T", "U", "V", "W", "X", "Y", "Z">>
        LowerCase == <<"a", "b", "c", "d", "e", "f", "g", "h", "i", "j", "k", "l", "m",
                       "n", "o", "p", "q", "r", "s", "t", "u", "v", "w", "x", "y", "z">>
    IN  IF \E i \in 1..Len(UpperCase) : UpperCase[i] = c
        THEN LowerCase[CHOOSE i \in 1..Len(UpperCase) : UpperCase[i] = c]
        ELSE c
Lowered(txt) == [i \in 1..Len(txt) |-> lower(txt[i])]
\* pat occurs in txt at some position
IsSubstring(pat, txt) ==
    \E k \in 0..(Len(txt) - Len(pat)) : \A i \in 1..Len(pat) : txt[k + i] = pat[i]

\* re.search(pattern, msg, re.IGNORECASE) for the patterns, which hold no
\* special character, on those messages: the pairs that match
MatchTable ==
    {pm : pm \in {x \in {"Not ready", "Disconnected"} \X (Msgs \cup MoreMsgs) :
                    IsSubstring(Lowered(Text(x[1])), Lowered(Text(x[2])))}}
re_search(pattern, msg) == <<pattern, msg>> \in MatchTable

\* the replies to "version": the first element of the VERSION list is a dict
\* with the key BOSer, with the key CGMiner, with both, with neither
\* ("other"), is missing because the list is empty ("empty"), or is a number
\* ("int")
VersionReply(v) == [Envelope("S", 22, "OK", {"VERSION"}) EXCEPT !.version = v]
VersionObjs == {VersionReply(v) : v \in {"BOSer", "CGMiner", "both", "other", "empty", "int"}}
                 \cup {EmptyDict, NoStatusDict, Envelope("S", 22, "OK", {}),
                       Envelope("E", 14, "Invalid command", {})}

\* the objects a device answers a single command with: without STATUS, with
\* Error severity, with Success severity, with another severity
SingleObjs ==
    {EmptyDict, NoStatusDict}
      \cup {Envelope("E", 0, m, {}) : m \in Msgs \ {"OK"}}
      \cup {Envelope("E", 70, "Not Ready", {"STATS"}),
            Envelope("E", 11, "Invalid command", {"SUMMARY"})}
      \cup {Envelope("S", 70, "OK", {"STATS"}), Envelope("S", 70, "OK", {}),
            Envelope("S", 11, "OK", {"SUMMARY"}), Envelope("S", 9, "OK", {"DEVS"}),
            Envelope("S", 201, "OK", {"TEMPS"}), Envelope("S", 202, "OK", {"FANS"}),
            VersionReply("CGMiner")}
      \cup {Envelope("W", 11, "OK", {"SUMMARY"}), Envelope("I", 0, "OK", {}),
            Envelope("F", 0, "Invalid command", {})}

\* the value under one token of a combined reply
Missing == [t |-> "missing", items |-> <<>>]
ListOf(items) == [t |-> "list", items |-> items]
SubValues ==
    {Missing, ListOf(<<>>)}
      \cup {ListOf(<<o>>) :
               o \in {EmptyDict, Envelope("E", 0, "Not Ready", {}),
                      Envelope("E", 0, "Invalid command", {}),
                      Envelope("S", 11, "OK", {"SUMMARY"}),
                      Envelope("S", 70, "OK", {"STATS"})}}
Map(sub) == [t |-> "map", empty |-> FALSE, hasStatus |-> FALSE, sub |-> sub]

Range(seq) == {seq[i] : i \in 1..Len(seq)}
CombinedObjs(tokens) ==
    {EmptyDict, Envelope("E", 14, "Invalid command", {})}
      \cup {Map(f) : f \in [Range(tokens) -> SubValues]}

\* bytes on the wire: nothing within the timeout, bytes that are no JSON,
\* or the JSON text of obj
Silent == [t |-> "silent"]
Garbage == [t |-> "garbage"]
Json(obj) == [t |-> "json", obj |-> obj]

\* MinerAPI.get_resp: rawread(), then json.loads; None for no data and for
\* data that does not parse
get_resp(wire) ==
    IF wire.t = "silent" THEN None
    ELSE IF wire.t = "garbage" THEN None
    ELSE wire.obj

\* Python's "not x" for a decoded value
Falsy(x) == x.t = "None" \/ (x.t = "dict" /\ x.empty)

\* key in response, for a token of the command
HasKey(response, key) ==
    /\ response.t = "map"
    /\ key \in DOMAIN response.sub
    /\ response.sub[key].t # "missing"

(***************************************************************************)
(* Commands: a string, or a list of tokens sent joined by "+"              *)
(***************************************************************************)
Command(combined, tokens) == [tokens |-> tokens, combined |-> combined]
\* the single strings that contain a "+"
PlusStrings == {"summary+stats"}
Summary == Command(FALSE, <<"summary">>)
SummaryStats == Command(TRUE, <<"summary", "stats">>)
Version == Command(FALSE, <<"version">>)
\* the list get_device_info hands to execute_command (Miners.py 318)
DevsTempsFans == Command(TRUE, <<"devs", "temps", "fans">>)
\* "+" in command_str, command_str being '+'.join(command) for a list
HasPlus(command) ==
    IF command.combined THEN Len(command.tokens) > 1
    ELSE command.tokens[1] \in PlusStrings

\* what the device may answer to a single command, to the combined command
\* and to "version"
SingleReplies == {Silent, Garbage} \cup {Json(o) : o \in SingleObjs}
CombinedReplies == {Silent, Garbage} \cup {Json(o) : o \in CombinedObjs(SummaryStats.tokens)}
VersionReplies == {Silent, Garbage} \cup {Json(o) : o \in VersionObjs}
\* to devs+temps+fans: a sub-result under every token, or temps or fans
\* left out, or no object at all
DeviceInfoReplies ==
    {Silent} \cup
    {Json(Map(("devs" :> ListOf(<<d>>)) @@ ("temps" :> t) @@ ("fans" :> f))) :
        d \in {Envelope("S", 9, "OK", {"DEVS"}), Envelope("E", 0, "Not Ready", {})},
        t \in {ListOf(<<Envelope("S", 201, "OK", {"TEMPS"})>>),
               ListOf(<<Envelope("E", 0, "miner disconnected", {})>>), Missing},
        f \in {ListOf(<<Envelope("S", 202, "OK", {"FANS"})>>),
               ListOf(<<Envelope("S", 202, "OK", {})>>), Missing}}
Replies(command) ==
    IF command = DevsTempsFans THEN DeviceInfoReplies
    ELSE IF command.combined THEN CombinedReplies ELSE SingleReplies

\* how a read ends: with data, with recv() failing, with select() reporting
\* an exceptional condition
ReadEnds == {"data", "reset", "exceptional"}

(***************************************************************************)
(* The response classifier, CGMiner._handle_response (Miners.py 203-269,   *)
(* the same text in MinerAPI.py 361-427)                                   *)
(***************************************************************************)
\* what a call gives back: the exception it raised (NoExc if it returned)
\* and the value it returned
Raised(exc) == [exc |-> exc, value |-> None, recognized |-> FALSE]
Returned(value, recognized) == [exc |-> NoExc, value |-> value, recognized |-> recognized]

\* the part of a reply that is handed to the caller
Payload(block, data) == [t |-> "payload", block |-> block, data |-> data]

\* a bug: the whole reply is handed back instead of the block
block_raw(data, key, name) == Returned(Payload("RAW", data), FALSE)

\* data[key] for a data block of the reply; KeyError if the key is absent
Block(data, key, name) ==
    IF key \in data.blocks THEN Returned(Payload(name, data), TRUE)
    ELSE Raised(KeyError(key))

\* error_patterns, in the order of the list
error_patterns == << <<"Not ready", RETRY_SHORT>>, <<"Disconnected", RETRY_LONG>> >>

\* the first pattern of error_patterns, from index i on, found in errmsg;
\* 0 if there is none
RECURSIVE FirstMatch(_, _)
FirstMatch(errmsg, i) ==
    IF i > Len(error_patterns) THEN 0
    ELSE IF re_search(error_patterns[i][1], errmsg) THEN i
    ELSE FirstMatch(errmsg, i + 1)

\* a bug: an Error reply is always worth a short retry
handle_error_always_retry(errmsg) == Raised(MinerException(errmsg, RETRY_SHORT))

\* a bug: the last pattern found in the message decides
handle_error_last_match(errmsg) ==
    LET found == {i \in 1..Len(error_patterns) : re_search(error_patterns[i][1], errmsg)} IN
    IF found = {} THEN Raised(SystemExit("3"))
    ELSE Raised(MinerException(errmsg,
                  error_patterns[CHOOSE i \in found : \A j \in found : j <= i][2]))

\* the branch for status['STATUS'] == "E" (Miners.py 233-254)
handle_error(errmsg) ==
    LET i == FirstMatch(errmsg, 1) IN
    IF i # 0 THEN Raised(MinerException(errmsg, error_patterns[i][2]))
    ELSE Raised(SystemExit("3"))

\* a bug: a reply of another severity is handed back as raw data
handle_response_lenient(data, command) ==
    IF Falsy(data) THEN Raised(RuntimeError("No response returned"))
    ELSE IF command \notin PlusStrings /\ ~data.hasStatus THEN Raised(SystemExit("2"))
    ELSE IF ~data.hasStatus THEN Raised(KeyError("STATUS"))
    ELSE IF data.sev = "E" THEN handle_error(data.msg)
    ELSE IF data.code = 70 THEN Block(data, "STATS", "STATS")
    ELSE IF data.code = 11 THEN Block(data, "SUMMARY", "SUMMARY[0]")
    ELSE IF data.code = 9 THEN Block(data, "DEVS", "DEVS")
    ELSE Returned(Payload("RAW", data), FALSE)

\* CGMiner._handle_response(data, command)
handle_response(data, command) ==
    IF Falsy(data) THEN Raised(RuntimeError("No response returned"))
    ELSE IF command \notin PlusStrings /\ ~data.hasStatus THEN Raised(SystemExit("2"))
    ELSE IF ~data.hasStatus THEN Raised(KeyError("STATUS"))
    ELSE IF data.sev = "E" THEN handle_error(data.msg)
    ELSE IF data.sev # "S" THEN Raised(SystemExit("4"))
    ELSE IF data.code = 70 THEN Block(data, "STATS", "STATS")
    ELSE IF data.code = 11 THEN Block(data, "SUMMARY", "SUMMARY[0]")
    ELSE IF data.code = 9 THEN Block(data, "DEVS", "DEVS")
    ELSE Returned(Payload("RAW", data), FALSE)

\* a bug: the subclass adds no code of its own
bos_handle_response_base_only(data, command) == handle_response(data, command)

\* a bug: the subclass looks up its own codes before it delegates
bos_handle_response_codes_first(data, command) ==
    IF ~Falsy(data) /\ data.hasStatus /\ data.code = 201 THEN Block(data, "TEMPS", "TEMPS")
    ELSE IF ~Falsy(data) /\ data.hasStatus /\ data.code = 202 THEN Block(data, "FANS", "FANS")
    ELSE handle_response(data, command)

\* BOSminer._handle_response(data, command) (Miners.py 277-299)
bos_handle_response(data, command) ==
    LET r == handle_response(data, command) IN
    IF r.exc # NoExc THEN Raised(r.exc)
    ELSE IF ~r.recognized /\ data.hasStatus
        THEN IF data.code = 201 THEN Block(data, "TEMPS", "TEMPS")
             ELSE IF data.code = 202 THEN Block(data, "FANS", "FANS")
             ELSE Returned(Payload("RAW", data), FALSE)
    ELSE Returned(r.value, r.recognized)

\* the tuple (result_data, was_recognized) a classifier returns
Tuple(value, recognized) == [t |-> "tuple", value |-> value, recognized |-> recognized]

(***************************************************************************)
(* CGMiner.api_command after the request was sent: get_resp() and the      *)
(* checks of the decoded response.  The two copies of the class differ:    *)
(* Miners.py 83-99 raises MinerException where MinerAPI.py 249-265 raises  *)
(* RuntimeError.                                                           *)
(***************************************************************************)
Impls == {"Miners", "MinerAPI"}
\* the two copies of the subclass BOSminer (Miners.py 271, MinerAPI.py 446)
BosImpls == {"Miners.BOSminer", "MinerAPI.BOSminer"}
\* the module whose copy of the classes the client is an object of
module_of(impl) == IF impl \in {"Miners", "Miners.BOSminer"} THEN "Miners" ELSE "MinerAPI"

\* self._handle_response(data, command) on an object of class impl
self_handle_response(impl, data, command) ==
    IF impl \in BosImpls THEN bos_handle_response(data, command)
    ELSE handle_response(data, command)

\* the first expected key absent from the response, "" if all are there
RECURSIVE FirstMissing(_, _, _)
FirstMissing(response, keys, i) ==
    IF i > Len(keys) THEN ""
    ELSE IF ~HasKey(response, keys[i]) THEN keys[i]
    ELSE FirstMissing(response, keys, i + 1)

\* the exception for "if not response"
no_response(impl) ==
    IF module_of(impl) = "Miners" THEN MinerException("No response returned", RETRY_LONG)
    ELSE RuntimeError("No response returned")

\* the exception for an expected key that is not in the response
missing_key(impl) ==
    IF module_of(impl) = "Miners" THEN MinerException("No key returned", RETRY_SHORT)
    ELSE RuntimeError("No key returned")

\* a bug: the shape of the response is not checked
api_command_no_shape_check(impl, command, wire) ==
    LET response == get_resp(wire) IN
    IF Falsy(response) THEN Raised(no_response(impl))
    ELSE IF command.combined /\ FirstMissing(response, command.tokens, 1) # ""
        THEN Raised(missing_key(impl))
    ELSE Returned(response, TRUE)

\* api_command(command, param) from get_resp() on, wire being what arrives
api_command(impl, command, wire) ==
    LET response == get_resp(wire) IN
    IF Falsy(response) THEN Raised(no_response(impl))
    ELSE IF ~HasPlus(command) /\ ~response.hasStatus
        THEN Raised(MinerException("Unrecognized response, no STATUS", FATAL))
    ELSE IF command.combined /\ FirstMissing(response, command.tokens, 1) # ""
        THEN Raised(missing_key(impl))
    ELSE Returned(response, TRUE)

(***************************************************************************)
(* The parse step of execute_command (Miners.py 147-156)                   *)
(***************************************************************************)
\* response[cmd][0]
First(response, cmd) ==
    IF response.t # "map" THEN Raised(KeyError(cmd))
    ELSE IF response.sub[cmd].items = <<>> THEN Raised(Exc("IndexError", "none", cmd))
    ELSE Returned(response.sub[cmd].items[1], TRUE)

\* for cmd in command_list: data, _ = self._handle_response(response[cmd][0], cmd);
\* result[cmd] = data   -- from token i on, result being what is collected so far
RECURSIVE ParseParts(_, _, _, _, _)
ParseParts(impl, response, tokens, i, result) ==
    IF i > Len(tokens) THEN Returned([t |-> "result", parts |-> result], TRUE)
    ELSE LET first == First(response, tokens[i]) IN
         IF first.exc # NoExc THEN Raised(first.exc)
         ELSE LET r == self_handle_response(impl, first.value, tokens[i]) IN
              IF r.exc # NoExc THEN Raised(r.exc)
              ELSE ParseParts(impl, response, tokens, i + 1,
                              result @@ (tokens[i] :> r.value))

\* a bug: only the first token of a combined command is parsed
parse_first_only(impl, command, response) ==
    IF command.combined THEN ParseParts(impl, response, <<command.tokens[1]>>, 1, <<>>)
    ELSE LET r == self_handle_response(impl, response, command.tokens[1]) IN
         IF r.exc # NoExc THEN Raised(r.exc) ELSE Returned(r.value, TRUE)

\* the result of a parsed response on an object of class impl, or the
\* exception of the first part that fails
Parse(impl, command, response) ==
    IF command.combined THEN ParseParts(impl, response, command.tokens, 1, <<>>)
    ELSE LET r == self_handle_response(impl, response, command.tokens[1]) IN
         IF r.exc # NoExc THEN Raised(r.exc) ELSE Returned(r.value, TRUE)

(***************************************************************************)
(* The retry policy of execute_command (Miners.py 165-201)                 *)
(***************************************************************************)
\* the keyword arguments of execute_command
Args(max_retry_duration, initial_delay_short, initial_delay_long, max_delay) ==
    [max_retry_duration |-> max_retry_duration,
     initial_delay_short |-> initial_delay_short,
     initial_delay_long |-> initial_delay_long,
     max_delay |-> max_delay]

\* the argument sets the callers are taken to use: the defaults with a short
\* deadline, a zero deadline, a negative deadline, and a set whose max_delay
\* is within reach
ArgSets == {Args(5, DefaultDelayShort, DefaultDelayLong, DefaultMaxDelay),
            Args(0, DefaultDelayShort, DefaultDelayLong, DefaultMaxDelay),
            Args(-1, DefaultDelayShort, DefaultDelayLong, DefaultMaxDelay),
            Args(9, 1, 2, 3)}

\* time.time() at the entry of execute_command
StartTimes == {0, 3}

\* the base delay of an error type (Miners.py 177-182)
base_delay(error_type, a) ==
    IF error_type = RETRY_SHORT THEN a.initial_delay_short
    ELSE IF error_type = RETRY_LONG THEN a.initial_delay_long
    ELSE a.initial_delay_short

\* a bug: the first retry waits 0, the multiplier being attempt
backoff_delay_late(error_type, att, a, el) ==
    Min(Min(base_delay(error_type, a) * att, a.max_delay), a.max_retry_duration - el)

\* a bug: the delay is not cut to the time that remains
backoff_delay_uncut(error_type, att, a, el) ==
    Min(base_delay(error_type, a) * (att + 1), a.max_delay)

\* the delay before the next attempt (Miners.py 185-189); att is attempt and
\* el is elapsed
backoff_delay(error_type, att, a, el) ==
    LET delay1 == Min(base_delay(error_type, a) * (att + 1), a.max_delay)
        remaining_time == a.max_retry_duration - el
    IN  Min(delay1, remaining_time)

\* a bug: the start time is taken anew at every failure
elapsed_time_restarted(t, start) == 0

\* elapsed = time.time() - retry_start_time (Miners.py 171)
elapsed_time(t, start) == t - start

\* a bug: the deadline is compared with > instead of >=
deadline_reached_late(el, a) == el > a.max_retry_duration

\* a bug: a deadline of zero or less is taken as no deadline
deadline_reached_positive_only(el, a) ==
    a.max_retry_duration > 0 /\ el >= a.max_retry_duration

\* elapsed >= max_retry_duration (Miners.py 172)
deadline_reached(el, a) == el >= a.max_retry_duration

\* a bug: every exception is caught, and retried unless it says otherwise
except_clause_catch_all(e, att, a, el) ==
    IF e.type = "MinerException" /\ ~is_retryable(e.error_type) THEN [raise |-> TRUE, delay |-> 0]
    ELSE IF deadline_reached(el, a) THEN [raise |-> TRUE, delay |-> 0]
    ELSE [raise |-> FALSE, delay |-> backoff_delay(e.error_type, att, a, el)]

\* what the except clause decides for exception e caught at elapsed time el:
\* re-raise, or sleep for delay
except_clause(e, att, a, el) ==
    IF e.type # "MinerException" THEN [raise |-> TRUE, delay |-> 0]
    ELSE IF ~is_retryable(e.error_type) THEN [raise |-> TRUE, delay |-> 0]
    ELSE IF deadline_reached(el, a) THEN [raise |-> TRUE, delay |-> 0]
    ELSE [raise |-> FALSE, delay |-> backoff_delay(e.error_type, att, a, el)]

\* a bug: the interrupt handler does not close
interrupt_cleanup_none(i, c) == c

\* the KeyboardInterrupt handler around time.sleep: Miners.py 194-200 closes
\* the connection, MinerAPI.py 358 has no handler
interrupt_cleanup(i, c) == IF module_of(i) = "Miners" THEN close(c) ELSE c

\* a bug: the socket in use is not closed before the new one is opened
ensure_connection_no_close(c, probe) ==
    IF is_connected(c, probe) THEN <<>> ELSE <<"open">>

\* the calls execute_command makes on the client after is_connected(), to
\* have a usable connection (Miners.py 140-142, MinerAPI.py 312-314)
ensure_connection(c, probe) ==
    IF is_connected(c, probe) THEN <<>> ELSE <<"close", "open">>

\* what a step that looks after the connection leaves: what is_connected()
\* returned (FALSE if it was not called) and the calls made on the client
\* after it; NotEnsured before the first such step
Ensured(connected, calls) == [connected |-> connected, calls |-> calls]
NotEnsured == Ensured(FALSE, <<>>)

\* MinerAPI.open: a new socket, then connect(), which raises if it fails
open(ok) == IF ok THEN "open" ELSE "created"

\* a bug: the state of the connection is not looked at
send_unchecked(c, ok) == IF ok THEN NoExc ELSE OSError("send")

\* MinerAPI.send (MinerAPI.py 189-192): the exception self.conn.sendall raises,
\* NoExc if the request is sent; self.conn may be None, and a socket that is
\* closed or not connected fails
send(c, ok) ==
    IF c = "none" THEN Exc("AttributeError", "none", "sendall")
    ELSE IF c = "open" /\ ok THEN NoExc
    ELSE OSError("send")

(***************************************************************************)
(* State                                                                   *)
(***************************************************************************)
VARIABLES
    impl,              \* the class of the client: CGMiner or BOSminer, of Miners.py or
                       \* of MinerAPI.py
    server,            \* self.server
    port,              \* self.port
    last,              \* the method of MinerAPI called before the latest one
    buffer,            \* rawread's local buffer
    received,          \* what recv() returned during the current rawread, in order
    ensured,           \* what the latest step that looks after the connection found
                       \* and called
    peer,              \* the other end of the connection: "up" or "closed"
    conn,              \* self.conn
    pc,                \* where execute_command is
    command,           \* its argument command
    args,              \* its keyword arguments
    now,               \* time.time()
    retry_start_time,  \* its local retry_start_time
    attempt,           \* its local attempt
    response,          \* its local response
    exc,               \* the exception caught, or raised to the caller
    delay,             \* its local delay while it sleeps
    result,            \* the value returned
    sent,              \* requests sent on the socket since it was created
    tries,             \* attempts started (passes of the loop) in this invocation
    sleeps,            \* sleeps completed in this invocation
    slept,             \* the sum of their delays
    prevDelay,         \* the delay of the last completed sleep
    onlyShort          \* every failure so far was a RETRY_SHORT

vars == <<impl, server, port, last, buffer, received, ensured, peer, conn, pc,
          command, args, now,
          retry_start_time, attempt, response, exc, delay, result, sent, tries, sleeps,
          slept, prevDelay, onlyShort>>

\* the states of one invocation, as in the state machine of execute()
Terminal == {"Success", "FatalError"}
Running == {"Connecting", "Sending", "Reading", "Classifying", "RetryWait"}

Init ==
    /\ impl \in Impls
    /\ server = PyStr(<<"h">>)
    /\ port = PyInt(4028)
    /\ last = "none"
    /\ buffer = <<>>
    /\ received = <<>>
    /\ ensured = NotEnsured
    /\ peer = "up"
    /\ conn = "none"
    /\ pc = "Idle"
    /\ command = Summary
    /\ args = Args(0, DefaultDelayShort, DefaultDelayLong, DefaultMaxDelay)
    /\ now = 0
    /\ retry_start_time = 0
    /\ attempt = 0
    /\ response = None
    /\ exc = NoExc
    /\ delay = 0
    /\ result = None
    /\ sent = 0
    /\ tries = 0
    /\ sleeps = 0
    /\ slept = 0
    /\ prevDelay = 0
    /\ onlyShort = TRUE

(***************************************************************************)
(* execute_command, step by step                                           *)
(***************************************************************************)
\* entry (Miners.py 129-134)
ExecuteCommand(c, a, t0) ==
    /\ pc = "Idle"
    /\ pc' = "Connecting"
    /\ command' = c
    /\ args' = a
    /\ now' = t0
    /\ retry_start_time' = t0
    /\ attempt' = 0
    /\ response' = None
    /\ exc' = NoExc
    /\ delay' = 0
    /\ result' = None
    /\ tries' = 0
    /\ sleeps' = 0
    /\ slept' = 0
    /\ prevDelay' = 0
    /\ onlyShort' = TRUE
    /\ ensured' = NotEnsured
    /\ UNCHANGED <<impl, server, port, last, buffer, received, peer,
                   conn, sent>>

\* an exception e leaves the try block at time t: the except clause
\* (Miners.py 165-191), up to the call of time.sleep
Except(e, t) ==
    LET d == except_clause(e, attempt, args, elapsed_time(t, retry_start_time)) IN
    /\ exc' = e
    /\ response' = None
    /\ pc' = IF d.raise THEN "FatalError" ELSE "RetryWait"
    /\ delay' = d.delay
    /\ onlyShort' = (onlyShort /\ e.error_type = RETRY_SHORT)

\* ensure a usable connection (Miners.py 140-142)
Connecting(probe, ok) ==
    /\ pc = "Connecting"
    /\ LET calls == ensure_connection(conn, probe)
           closed == IF "close" \in Range(calls) THEN close(conn) ELSE conn
       IN  /\ ensured' = Ensured(is_connected(conn, probe), calls)
           /\ IF "open" \in Range(calls)
              THEN /\ conn' = open(ok)
                   /\ peer' = "up"
                   /\ sent' = 0
                   /\ IF ok
                      THEN /\ pc' = "Sending"
                           /\ UNCHANGED <<exc, response, delay, onlyShort>>
                      ELSE Except(OSError("connect"), now)
              ELSE /\ conn' = closed
                   /\ pc' = "Sending"
                   /\ UNCHANGED <<peer, sent, exc, response, delay, onlyShort>>
    /\ tries' = tries + 1
    /\ UNCHANGED <<impl, server, port, last, buffer, received,
                   command, args, now, retry_start_time, attempt, result,
                   sleeps, slept, prevDelay>>

\* send_command (Miners.py 83, MinerAPI.py 189-197): sendall raises on a
\* socket that is not connected, and may raise on one that is
Sending(ok) ==
    /\ pc = "Sending"
    /\ IF send(conn, ok) = NoExc
       THEN /\ pc' = "Reading"
            /\ sent' = Min(sent + 1, MaxSent)
            /\ UNCHANGED <<exc, response, delay, onlyShort>>
       ELSE /\ Except(send(conn, ok), now)
            /\ UNCHANGED sent
    /\ UNCHANGED <<impl, server, port, last, buffer, received, ensured, peer,
                   conn, command, args, now, retry_start_time, attempt, result,
                   tries, sleeps, slept, prevDelay>>

\* get_resp and the checks of api_command (Miners.py 84-99); io is how the
\* read ends: with data, with recv() failing, or with select() reporting an
\* exceptional condition (MinerAPI.py 145-146)
Reading(io, wire, dt) ==
    /\ pc = "Reading"
    /\ now' = now + dt
    /\ IF io = "reset" THEN Except(OSError("recv"), now + dt)
       ELSE IF io = "exceptional" THEN Except(RuntimeError("Exceptional condition"), now + dt)
       ELSE LET r == api_command(impl, command, wire) IN
            IF r.exc # NoExc THEN Except(r.exc, now + dt)
            ELSE /\ pc' = "Classifying"
                 /\ response' = r.value
                 /\ UNCHANGED <<exc, delay, onlyShort>>
    /\ UNCHANGED <<impl, server, port, last, buffer, received, ensured, peer,
                   conn, command, args, retry_start_time, attempt, result, sent,
                   tries, sleeps, slept, prevDelay>>

\* parse the response, close and return (Miners.py 148-163)
Classifying ==
    /\ pc = "Classifying"
    /\ LET p == Parse(impl, command, response) IN
       IF p.exc # NoExc
       THEN /\ Except(p.exc, now)
            /\ UNCHANGED <<conn, result>>
       ELSE /\ conn' = close(conn)
            /\ result' = p.value
            /\ pc' = "Success"
            /\ response' = None
            /\ UNCHANGED <<exc, delay, onlyShort>>
    /\ UNCHANGED <<impl, server, port, last, buffer, received, ensured, peer,
                   command, args, now, retry_start_time, attempt, sent,
                   tries, sleeps, slept, prevDelay>>

\* time.sleep(delay) returns, over ticks late; attempt += 1 and the loop
\* starts over (Miners.py 193, 201)
SleepDone(over) ==
    /\ pc = "RetryWait"
    /\ now' = now + delay + over
    /\ attempt' = attempt + 1
    /\ pc' = "Connecting"
    /\ exc' = NoExc
    /\ delay' = 0
    /\ prevDelay' = delay
    /\ sleeps' = sleeps + 1
    /\ slept' = slept + delay
    /\ UNCHANGED <<impl, server, port, last, buffer, received, ensured, peer,
                   conn, command, args, retry_start_time, response, result,
                   sent, tries, onlyShort>>

\* KeyboardInterrupt while time.sleep(delay) waits (Miners.py 194-200)
Interrupt ==
    /\ pc = "RetryWait"
    /\ conn' = interrupt_cleanup(impl, conn)
    /\ exc' = KeyboardInterrupt
    /\ pc' = "FatalError"
    /\ UNCHANGED <<impl, server, port, last, buffer, received, ensured, peer,
                   command, args, now, retry_start_time, attempt, response,
                   delay, result, sent, tries, sleeps, slept, prevDelay, onlyShort>>

(***************************************************************************)
(* The other calls a caller makes on the client between invocations        *)
(***************************************************************************)
\* execute_command's locals and the history of the invocation are gone
Forget ==
    /\ ensured' = NotEnsured
    /\ attempt' = 0
    /\ response' = None
    /\ delay' = 0
    /\ tries' = 0
    /\ sleeps' = 0
    /\ slept' = 0
    /\ prevDelay' = 0
    /\ onlyShort' = TRUE

\* a bug: the marker CGMiner is looked for first
detect_miner_type_cgminer_first(resp) ==
    IF "VERSION" \notin resp.blocks THEN "unknown"
    ELSE IF resp.version \in {"empty", "int"} THEN "unknown"
    ELSE IF resp.version \in {"CGMiner", "both"} THEN "cgminer"
    ELSE IF resp.version = "BOSer" THEN "bosminer"
    ELSE "unknown"

\* the marker found in the version block (Miners.py 49-58)
detect_miner_type(resp) ==
    IF "VERSION" \notin resp.blocks THEN "unknown"
    ELSE IF resp.version \in {"empty", "int"} THEN "unknown"
    ELSE IF resp.version \in {"BOSer", "both"} THEN "bosminer"
    ELSE IF resp.version = "CGMiner" THEN "cgminer"
    ELSE "unknown"

\* CGMiner.detect_miner_type (Miners.py 38-58): one api_command('version')
\* on the connection as it is
DetectMinerType(ok, io, wire) ==
    /\ pc = "Idle"
    /\ pc' = "Detected"
    /\ command' = Version
    /\ Forget
    /\ LET s == send(conn, ok)
           r == api_command(impl, Version, wire)
       IN  IF s # NoExc
           THEN exc' = s /\ result' = None /\ UNCHANGED sent
           ELSE /\ sent' = Min(sent + 1, MaxSent)
                /\ IF io = "reset" THEN exc' = OSError("recv") /\ result' = None
                   ELSE IF io = "exceptional"
                       THEN exc' = RuntimeError("Exceptional condition") /\ result' = None
                   ELSE IF r.exc # NoExc THEN exc' = r.exc /\ result' = None
                   ELSE /\ exc' = NoExc
                        /\ result' = PyStr(detect_miner_type(r.value))
    /\ UNCHANGED <<impl, server, port, last, buffer, received, peer,
                   conn, args, now, retry_start_time>>

\* the call is over: the caller has the result or the exception, and the
\* frame of the call is gone
Return ==
    /\ pc \in Terminal \cup {"Detected"}
    /\ pc' = "Idle"
    /\ command' = Summary
    /\ args' = Args(0, DefaultDelayShort, DefaultDelayLong, DefaultMaxDelay)
    /\ now' = 0
    /\ retry_start_time' = 0
    /\ exc' = NoExc
    /\ result' = None
    /\ Forget
    /\ UNCHANGED <<impl, server, port, last, buffer, received, peer,
                   conn, sent>>

\* MinerAPI.open called by the caller (cgstats.py 177)
Open(ok) ==
    /\ pc = "Idle"
    /\ conn' = open(ok)
    /\ peer' = "up"
    /\ sent' = 0
    /\ UNCHANGED <<impl, server, port, last, buffer, received, ensured,
                   pc, command, args, now, retry_start_time, attempt, response,
                   exc, delay, result, tries, sleeps, slept, prevDelay, onlyShort>>

\* MinerAPI.close called by the caller (cgstats.py 502)
Close ==
    /\ pc = "Idle"
    /\ conn' = close(conn)
    /\ UNCHANGED <<impl, server, port, last, buffer, received, ensured, peer,
                   pc, command, args, now, retry_start_time, attempt, response,
                   exc, delay, result, sent, tries, sleeps, slept, prevDelay, onlyShort>>

Begin == \E c \in {Summary, SummaryStats}, a \in ArgSets, t0 \in StartTimes :
            ExecuteCommand(c, a, t0)

\* BOSminer.get_device_info() with its defaults (Miners.py 301-330): it
\* enters execute_command with the list devs, temps, fans and hands the three
\* parts of the result on as devs_data, temps_data and fans_data
GetDeviceInfo(t0) ==
    /\ impl \in BosImpls
    /\ ExecuteCommand(DevsTempsFans, Args(300, 1, 10, 60), t0)

\* the steps of a running invocation
Step ==
    \/ \E probe \in Probes, ok \in BOOLEAN : Connecting(probe, ok)
    \/ \E ok \in BOOLEAN : Sending(ok)
    \/ \E io \in ReadEnds, dt \in 1..MaxIoTime :
          \E wire \in Replies(command) : Reading(io, wire, dt)
    \/ Classifying
    \/ \E over \in 0..MaxOversleep : attempt < MaxAttempts /\ SleepDone(over)

\* an interrupt, and the calls between invocations
Others ==
    \/ Interrupt
    \/ \E ok \in BOOLEAN, io \in ReadEnds :
          \E wire \in VersionReplies : DetectMinerType(ok, io, wire)
    \/ \E ok \in BOOLEAN : Open(ok)
    \/ Close
    \/ Return

Next == Begin \/ Step \/ Others

Spec == Init /\ [][Next]_vars

\* the code is sequential and every call it makes returns or raises in
\* finite time, so a step of a running invocation that can be taken is taken
\* (an interrupt may come or not)
\* the client called for "summary" with a positive max_retry_duration
BeginPositive == \E a \in {x \in ArgSets : x.max_retry_duration > 0}, t0 \in StartTimes :
                    ExecuteCommand(Summary, a, t0)
NextLive == BeginPositive \/ Step \/ Others
SpecLive == Init /\ [][NextLive]_vars /\ WF_vars(Step)

\* a BOSminer client whose caller asks for the device information, and
\* makes the other calls between two requests
InitDeviceInfo ==
    /\ impl \in BosImpls
    /\ server = PyStr(<<"h">>)
    /\ port = PyInt(4028)
    /\ last = "none"
    /\ buffer = <<>>
    /\ received = <<>>
    /\ ensured = NotEnsured
    /\ peer = "up"
    /\ conn = "none"
    /\ pc = "Idle"
    /\ command = Summary
    /\ args = Args(0, DefaultDelayShort, DefaultDelayLong, DefaultMaxDelay)
    /\ now = 0
    /\ retry_start_time = 0
    /\ attempt = 0
    /\ response = None
    /\ exc = NoExc
    /\ delay = 0
    /\ result = None
    /\ sent = 0
    /\ tries = 0
    /\ sleeps = 0
    /\ slept = 0
    /\ prevDelay = 0
    /\ onlyShort = TRUE
SpecDeviceInfo ==
    InitDeviceInfo /\ [][(\E t0 \in StartTimes : GetDeviceInfo(t0)) \/ Step \/ Others]_vars

\* one invocation with the default delays (1, 10, 60) and a deadline far
\* enough for the delays to reach max_delay, against a device that answers
\* every request with the error "Not Ready"
InitBackoff ==
    /\ impl \in Impls
    /\ server = PyStr(<<"h">>)
    /\ port = PyInt(4028)
    /\ last = "none"
    /\ buffer = <<>>
    /\ received = <<>>
    /\ ensured = NotEnsured
    /\ peer = "up"
    /\ conn = "none"
    /\ pc = "Connecting"
    /\ command = Summary
    /\ args = Args(LongDeadline, DefaultDelayShort, DefaultDelayLong, DefaultMaxDelay)
    /\ now \in StartTimes
    /\ retry_start_time = now
    /\ attempt = 0
    /\ response = None
    /\ exc = NoExc
    /\ delay = 0
    /\ result = None
    /\ sent = 0
    /\ tries = 0
    /\ sleeps = 0
    /\ slept = 0
    /\ prevDelay = 0
    /\ onlyShort = TRUE
NextBackoff ==
    \/ \E probe \in Probes : Connecting(probe, TRUE)
    \/ Sending(TRUE)
    \/ \E dt \in 1..MaxIoTime :
          Reading("data", Json(Envelope("E", 0, "Not Ready", {})), dt)
    \/ Classifying
    \/ SleepDone(0)
SpecBackoff == InitBackoff /\ [][NextBackoff]_vars

(***************************************************************************)
(* The classifiers alone: _handle_response of CGMiner and of BOSminer       *)
(* called on a decoded response and a command string                       *)
(***************************************************************************)
ClassifierInputs ==
    {None, EmptyDict, NoStatusDict}
      \cup {Envelope(sev, code, m, b) :
               sev \in {"S", "E", "W"}, code \in {0, 9, 11, 70, 201, 202},
               m \in Msgs \cup MoreMsgs,
               b \in {{}, {"SUMMARY"}, {"STATS"}, {"DEVS"}, {"TEMPS"}, {"FANS"}}}

InitClassifier ==
    /\ impl \in Impls
    /\ server = PyStr(<<"h">>)
    /\ port = PyInt(4028)
    /\ last = "none"
    /\ buffer = <<>>
    /\ received = <<>>
    /\ ensured = NotEnsured
    /\ peer = "up"
    /\ conn = "none"
    /\ pc = "ClassifierInput"
    /\ command \in {Command(FALSE, <<"stats">>), Command(FALSE, <<"summary+stats">>)}
    /\ args = Args(0, DefaultDelayShort, DefaultDelayLong, DefaultMaxDelay)
    /\ now = 0
    /\ retry_start_time = 0
    /\ attempt = 0
    /\ response \in ClassifierInputs
    /\ exc = NoExc
    /\ delay = 0
    /\ result = None
    /\ sent = 0
    /\ tries = 0
    /\ sleeps = 0
    /\ slept = 0
    /\ prevDelay = 0
    /\ onlyShort = TRUE

\* the call returns r.value, r.recognized or raises r.exc
Classified(r, label) ==
    /\ pc = "ClassifierInput"
    /\ pc' = label
    /\ exc' = r.exc
    /\ result' = IF r.exc # NoExc THEN None ELSE Tuple(r.value, r.recognized)
    /\ UNCHANGED <<impl, server, port, last, buffer, received, ensured, peer,
                   conn, command, args, now, retry_start_time, attempt, response,
                   delay, sent, tries, sleeps, slept, prevDelay, onlyShort>>
NextClassifier ==
    \/ Classified(handle_response(response, command.tokens[1]), "ClassifiedBase")
    \/ Classified(bos_handle_response(response, command.tokens[1]), "ClassifiedBOS")
SpecClassifier == InitClassifier /\ [][NextClassifier]_vars

(***************************************************************************)
(* The encoders alone: MinerAPI.json, KawpowMiner.json and send_command    *)
(* (MinerAPI.py 96-109, 194-197; Miners.py 13-27, MinerAPI.py 430-444).    *)
(* A request object is a function from its keys to their values.           *)
(***************************************************************************)
\* a bug: the parameter always goes under "params"
param_entry_plural(params) == "params" :> params

\* if isinstance(params, str): d["param"] = params  else: d["params"] = params
param_entry(params) == IF params.t = "str" THEN "param" :> params ELSE "params" :> params

\* MinerAPI.json: d = {"command": command}, then the parameter; json.dumps(d)
MinerAPI_json(cmd, params) == Json(("command" :> PyStr(cmd)) @@ param_entry(params))

\* KawpowMiner.json: d = {"id": 0, "jsonrpc": "2.0", "method": command}, then
\* the parameter; json.dumps(d)
KawpowMiner_json(cmd, params) ==
    Json(("id" :> PyInt(0)) @@ ("jsonrpc" :> PyStr("2.0")) @@ ("method" :> PyStr(cmd))
           @@ param_entry(params))

\* self.json(command, params) for an object of the dialect
json(dialect, cmd, params) ==
    IF dialect = "kawpow" THEN KawpowMiner_json(cmd, params) ELSE MinerAPI_json(cmd, params)

\* jsondata of MinerAPI.send_command, the bytes it hands to self.send:
\* (self.json(command, params) + "\n").encode(), the bytes of a text
\* followed by newlines line ends
send_command(dialect, cmd, params) ==
    [t |-> "bytes", text |-> json(dialect, cmd, params), newlines |-> 1]

InitEncoder ==
    /\ impl \in Impls
    /\ server = PyStr(<<"h">>)
    /\ port = PyInt(4028)
    /\ last = "none"
    /\ buffer = <<>>
    /\ received = <<>>
    /\ ensured = NotEnsured
    /\ peer = "up"
    /\ conn \in {"none", "open", "closed"}
    /\ pc = "EncoderInput"
    /\ command \in {Command(FALSE, <<c>>) :
                       c \in {"summary", "version", "summary+stats", "ascset"}}
    /\ args \in {[params |-> x] :
                    x \in {None, PyStr(""), PyStr("0"), PyStr("0,freq,500"), PyInt(0),
                           ListOf(<<>>), ListOf(<<PyStr("0")>>),
                           ListOf(<<PyStr("0"), PyInt(1)>>)}}
    /\ now = 0
    /\ retry_start_time = 0
    /\ attempt = 0
    /\ response = None
    /\ exc = NoExc
    /\ delay = 0
    /\ result = None
    /\ sent = 0
    /\ tries = 0
    /\ sleeps = 0
    /\ slept = 0
    /\ prevDelay = 0
    /\ onlyShort = TRUE

\* send_command(command, args.params) on an object of the dialect: the
\* request is built (result holds jsondata) and handed to self.send, which
\* sends it or raises; ok is whether sendall() succeeds on an open socket
Encoded(dialect, label, ok) ==
    /\ pc = "EncoderInput"
    /\ pc' = label
    /\ result' = send_command(dialect, command.tokens[1], args.params)
    /\ exc' = send(conn, ok)
    /\ sent' = IF send(conn, ok) = NoExc THEN Min(sent + 1, MaxSent) ELSE sent
    /\ UNCHANGED <<impl, server, port, last, buffer, received, ensured, peer,
                   conn, command, args, now, retry_start_time, attempt, response,
                   delay, tries, sleeps, slept, prevDelay, onlyShort>>
NextEncoder ==
    \E ok \in BOOLEAN :
        \/ Encoded("classic", "EncodedClassic", ok)
        \/ Encoded("kawpow", "EncodedKawpow", ok)
SpecEncoder == InitEncoder /\ [][NextEncoder]_vars

(***************************************************************************)
(* The base class alone: the methods of MinerAPI called one after another  *)
(* on one client, from its construction on (MinerAPI.py 57-197).  Text is  *)
(* a sequence of characters, what the socket carries a sequence of bytes.  *)
(***************************************************************************)
PyBool(b) == [b |-> b, t |-> "bool"]
ValueError(msg) == Exc("ValueError", "none", msg)
UnicodeDecodeError == Exc("UnicodeDecodeError", "none", "utf-8")

Digits == <<"0", "1", "2", "3", "4", "5", "6", "7", "8", "9">>
\* str.isdigit() for one character, and its value
IsDigit(c) == \E i \in 1..Len(Digits) : Digits[i] = c
DigitValue(c) == (CHOOSE i \in 1..Len(Digits) : Digits[i] = c) - 1
\* int(txt) for a text of digits
RECURSIVE ToInt(_, _)
ToInt(txt, n) ==
    IF n = 0 THEN 0 ELSE ToInt(txt, n - 1) * 10 + DigitValue(txt[n])

\* str.partition(c): the position of the first c in txt, 0 if there is none
IndexOf(txt, c) ==
    IF \E i \in 1..Len(txt) : txt[i] = c
    THEN CHOOSE i \in 1..Len(txt) : txt[i] = c /\ \A j \in 1..(i - 1) : txt[j] # c
    ELSE 0
Before(txt, c) == IF IndexOf(txt, c) = 0 THEN txt ELSE SubSeq(txt, 1, IndexOf(txt, c) - 1)
After(txt, c) == IF IndexOf(txt, c) = 0 THEN <<>> ELSE SubSeq(txt, IndexOf(txt, c) + 1, Len(txt))

\* urlsplit('//' + hostspec): the host and the port text of the netloc, the
\* host between brackets if there is an opening bracket
HostText(hostspec) ==
    IF IndexOf(hostspec, "[") # 0 THEN Before(After(hostspec, "["), "]")
    ELSE Before(hostspec, ":")
PortText(hostspec) ==
    IF IndexOf(hostspec, "[") # 0 THEN After(After(After(hostspec, "["), "]"), ":")
    ELSE After(hostspec, ":")

\* MinerAPI.parse_host: (r.hostname, r.port); the hostname is lowered and is
\* None if empty, the port is None if empty, an int if all digits and at
\* most 65535, and raises otherwise
parse_host(hostspec) ==
    LET h == HostText(hostspec)
        p == PortText(hostspec)
        host == IF h = <<>> THEN None ELSE PyStr(Lowered(h))
    IN  IF p = <<>> THEN Returned([server |-> host, port |-> None], TRUE)
        ELSE IF \E i \in 1..Len(p) : ~IsDigit(p[i])
            THEN Raised(ValueError("Port could not be cast to integer value"))
        ELSE IF ToInt(p, Len(p)) > 65535 THEN Raised(ValueError("Port out of range 0-65535"))
        ELSE Returned([server |-> host, port |-> PyInt(ToInt(p, Len(p)))], TRUE)

\* a bug: the port found in the host specification is not looked at
MinerAPI_init_unchecked(server_arg, port_arg) ==
    IF port_arg = None \/ port_arg = PyInt(0)
    THEN parse_host(server_arg.s)
    ELSE Returned([server |-> server_arg, port |-> port_arg], TRUE)

\* MinerAPI.__init__(server, port=None): the attributes server and port of
\* the new object, or the exception
MinerAPI_init(server_arg, port_arg) ==
    IF port_arg = None \/ port_arg = PyInt(0)
    THEN LET r == parse_host(server_arg.s) IN
         IF r.exc # NoExc THEN r
         ELSE IF r.value.port = None \/ r.value.port = PyInt(0)
             THEN Raised(ValueError("Port is required, but wasn't specified"))
         ELSE r
    ELSE Returned([server |-> server_arg, port |-> port_arg], TRUE)

\* a bug: a timeout with nothing to read counts as data
hasdata_eager(c, readable, exceptional) ==
    IF c = "none" THEN Raised(RuntimeError("Cannot select on a closed"))
    ELSE IF c = "closed" THEN Raised(ValueError("file descriptor cannot be a negative integer"))
    ELSE IF exceptional THEN Raised(RuntimeError("Exceptional condition on socket"))
    ELSE Returned(PyBool(TRUE), TRUE)

\* MinerAPI.hasdata(timeout) (MinerAPI.py 136-147); readable and exceptional
\* are what select() reports for the socket within the timeout, and select()
\* raises ValueError for a closed socket
hasdata(c, readable, exceptional) ==
    IF c = "none" THEN Raised(RuntimeError("Cannot select on a closed"))
    ELSE IF c = "closed" THEN Raised(ValueError("file descriptor cannot be a negative integer"))
    ELSE IF ~readable /\ ~exceptional THEN Returned(PyBool(FALSE), TRUE)
    ELSE IF exceptional THEN Raised(RuntimeError("Exceptional condition on socket"))
    ELSE Returned(PyBool(TRUE), TRUE)

\* the bytes of the model are an ASCII letter ("a"), the NUL sentinel, and the
\* two bytes of one two-byte UTF-8 character ("C3", "A9")
\* bytes.decode(): the bytes from position i on are well-formed UTF-8
RECURSIVE WellFormed(_, _)
WellFormed(bs, i) ==
    IF i > Len(bs) THEN TRUE
    ELSE IF bs[i] = "C3" THEN i + 1 <= Len(bs) /\ bs[i + 1] = "A9" /\ WellFormed(bs, i + 2)
    ELSE IF bs[i] = "A9" THEN FALSE
    ELSE WellFormed(bs, i + 1)
\* the characters they stand for
RECURSIVE Characters(_, _)
Characters(bs, i) ==
    IF i > Len(bs) THEN <<>>
    ELSE IF bs[i] = "C3" THEN <<"e-acute">> \o Characters(bs, i + 2)
    ELSE <<bs[i]>> \o Characters(bs, i + 1)
decode(bs) ==
    IF WellFormed(bs, 1) THEN Returned(PyStr(Characters(bs, 1)), TRUE)
    ELSE Raised(UnicodeDecodeError)

\* a bug: every trailing NUL is removed
RECURSIVE strip_nul_all(_)
strip_nul_all(buf) ==
    IF buf # <<>> /\ buf[Len(buf)] = "NUL" THEN strip_nul_all(SubSeq(buf, 1, Len(buf) - 1))
    ELSE buf

\* the end of rawread (MinerAPI.py 172-176): a terminating null is removed
strip_nul(buf) ==
    IF buf # <<>> /\ buf[Len(buf)] = "NUL" THEN SubSeq(buf, 1, Len(buf) - 1) ELSE buf

\* a bug: the bytes read by a later poll replace the buffer
accumulate_latest(buf, more) == more

\* buffer = buffer + more
accumulate(buf, more) == buf \o more

\* the host specifications and ports given to the constructor
CtorArgs ==
    {[server |-> PyStr(h), port |-> p] :
        h \in { <<"h">>, <<"h", ":">>, <<"h", ":", "0">>, <<"H", ":", "4", "2">>,
                <<"h", ":", "a">>, <<"h", ":", "6", "5", "5", "3", "6">>,
                <<"[", ":", ":", "1", "]", ":", "4", "2">>, <<"[", ":", ":", "1", "]">>,
                <<":", ":", "1">> },
        p \in {None, PyInt(0), PyInt(4028)}}

\* what one recv() may return: the chunks a device sends, and nothing once
\* the peer has closed
Chunks ==
    { <<"a">>, <<"NUL">>, <<"a", "NUL">>, <<"NUL", "a">>, <<"NUL", "NUL">>,
      <<"C3", "A9">>, <<"a", "C3">>, <<"A9">> }
EndOfFile == <<>>
\* the chunks read in one rawread
MaxChunks == 2

\* the methods, as labels of the call that returned last
Methods == {"__init__", "open", "close", "is_connected", "hasdata", "send", "rawread"}

InitConnection ==
    /\ impl = "MinerAPI"
    /\ server = None
    /\ port = None
    /\ last = "none"
    /\ buffer = <<>>
    /\ received = <<>>
    /\ ensured = NotEnsured
    /\ peer = "up"
    /\ conn = "none"
    /\ pc = "New"
    /\ command = Summary
    /\ args \in CtorArgs
    /\ now = 0
    /\ retry_start_time = 0
    /\ attempt = 0
    /\ response = None
    /\ exc = NoExc
    /\ delay = 0
    /\ result = None
    /\ sent = 0
    /\ tries = 0
    /\ sleeps = 0
    /\ slept = 0
    /\ prevDelay = 0
    /\ onlyShort = TRUE

\* MinerAPI(server, port)
Construct ==
    /\ pc = "New"
    /\ LET r == MinerAPI_init(args.server, args.port) IN
       IF r.exc # NoExc
       THEN /\ pc' = "ConstructFailed"
            /\ exc' = r.exc
            /\ UNCHANGED <<server, port>>
       ELSE /\ pc' = "__init__"
            /\ exc' = NoExc
            /\ server' = r.value.server
            /\ port' = r.value.port
    /\ UNCHANGED <<impl, last, buffer, received, ensured, peer, conn, command,
                   args, now,
                   retry_start_time, attempt, response, delay, result, sent, tries,
                   sleeps, slept, prevDelay, onlyShort>>

\* a method is called on the constructed client while no call is under way;
\* the locals of the call before are gone
Called(method) ==
    /\ pc \in Methods
    /\ last' = pc
    /\ UNCHANGED <<impl, server, port, ensured, command, args, now, retry_start_time,
                   attempt, response, delay, tries, sleeps, slept, prevDelay, onlyShort>>

\* client.open()
ApiOpen(ok) ==
    /\ Called("open")
    /\ pc' = "open"
    /\ conn' = open(ok)
    /\ peer' = "up"
    /\ sent' = 0
    /\ exc' = IF ok THEN NoExc ELSE OSError("connect")
    /\ result' = None
    /\ buffer' = <<>> /\ received' = <<>>

\* client.close()
ApiClose ==
    /\ Called("close")
    /\ pc' = "close"
    /\ conn' = close(conn)
    /\ exc' = NoExc
    /\ result' = None
    /\ buffer' = <<>> /\ received' = <<>>
    /\ UNCHANGED <<sent, peer>>

\* client.is_connected()
ApiIsConnected(probe) ==
    /\ Called("is_connected")
    /\ pc' = "is_connected"
    /\ exc' = NoExc
    /\ result' = PyBool(is_connected(conn, probe))
    /\ buffer' = <<>> /\ received' = <<>>
    /\ UNCHANGED <<conn, sent, peer>>

\* client.hasdata(timeout)
ApiHasdata(readable, exceptional) ==
    /\ Called("hasdata")
    /\ (conn = "open" /\ peer = "closed") => readable
    /\ pc' = "hasdata"
    /\ exc' = hasdata(conn, readable, exceptional).exc
    /\ result' = hasdata(conn, readable, exceptional).value
    /\ buffer' = <<>> /\ received' = <<>>
    /\ UNCHANGED <<conn, sent, peer>>

\* client.send(data), client.send_command(command)
ApiSend(ok) ==
    /\ Called("send")
    /\ pc' = "send"
    /\ exc' = send(conn, ok)
    /\ result' = None
    /\ sent' = IF send(conn, ok) = NoExc THEN Min(sent + 1, MaxSent) ELSE sent
    /\ buffer' = <<>> /\ received' = <<>>
    /\ UNCHANGED <<conn, peer>>

\* client.rawread() up to its first poll (MinerAPI.py 151-152)
ApiRawread ==
    /\ Called("rawread")
    /\ IF conn = "none"
       THEN /\ pc' = "rawread"
            /\ exc' = RuntimeError("Cannot read on a closed")
       ELSE /\ pc' = "RawreadFirst"
            /\ exc' = NoExc
    /\ result' = None
    /\ buffer' = <<>> /\ received' = <<>>
    /\ UNCHANGED <<conn, sent, peer>>

\* a bug: an empty read does not end the loop
not_more_never(more) == FALSE

\* "if not more" (MinerAPI.py 165): recv() returned no byte, the peer has
\* closed its end
not_more(more) == more = <<>>

\* rawread ends by raising e
RawreadRaise(e) ==
    /\ pc' = "rawread"
    /\ exc' = e
    /\ UNCHANGED <<result, buffer>>

\* rawread ends by returning text
RawreadReturn(text) ==
    /\ pc' = "rawread"
    /\ result' = PyStr(text)
    /\ UNCHANGED <<exc, buffer>>

\* one poll of rawread and the recv() after it: hasdata(3.0) for the first
\* bytes (MinerAPI.py 155-159), hasdata(0.5) in the loop (MinerAPI.py 160-170);
\* self.conn.recv(4096) raises on a socket without a peer and when the
\* connection fails (ok is false), else it returns chunk
RawreadPoll(readable, exceptional, ok, chunk) ==
    /\ pc \in {"RawreadFirst", "RawreadMore"}
    /\ (conn = "open" /\ peer = "closed") => (readable /\ chunk = EndOfFile)
    /\ LET h == hasdata(conn, readable, exceptional) IN
       IF h.exc # NoExc THEN RawreadRaise(h.exc) /\ UNCHANGED <<received, peer>>
       ELSE IF ~h.value.b
           THEN /\ RawreadReturn(IF pc = "RawreadFirst" THEN <<>> ELSE strip_nul(buffer))
                /\ UNCHANGED <<received, peer>>
       ELSE IF conn # "open" \/ ~ok
           THEN RawreadRaise(OSError("recv")) /\ UNCHANGED <<received, peer>>
       ELSE /\ received' = IF chunk = EndOfFile THEN received ELSE Append(received, chunk)
            /\ peer' = IF chunk = EndOfFile THEN "closed" ELSE peer
            /\ IF decode(chunk).exc # NoExc THEN RawreadRaise(decode(chunk).exc)
               ELSE IF pc = "RawreadFirst"
                   THEN /\ buffer' = decode(chunk).value.s
                        /\ pc' = "RawreadMore"
                        /\ UNCHANGED <<exc, result>>
               ELSE IF not_more(decode(chunk).value.s)
                   THEN RawreadReturn(strip_nul(buffer))
               ELSE /\ buffer' = accumulate(buffer, decode(chunk).value.s)
                    /\ UNCHANGED <<pc, exc, result>>
    /\ UNCHANGED <<impl, server, port, last, ensured, conn, command, args, now,
                   retry_start_time, attempt, response, delay, sent, tries, sleeps, slept,
                   prevDelay, onlyShort>>

\* the next poll of a rawread under way, with whatever the socket has
RawreadStep ==
    \E readable \in BOOLEAN, exceptional \in BOOLEAN, ok \in BOOLEAN :
       \E chunk \in {EndOfFile} \cup (IF Len(received) < MaxChunks THEN Chunks ELSE {}) :
          RawreadPoll(readable, exceptional, ok, chunk)

NextConnection ==
    \/ Construct
    \/ \E ok \in BOOLEAN : ApiOpen(ok)
    \/ ApiClose
    \/ \E probe \in Probes : ApiIsConnected(probe)
    \/ \E readable \in BOOLEAN, exceptional \in BOOLEAN : ApiHasdata(readable, exceptional)
    \/ \E ok \in BOOLEAN : ApiSend(ok)
    \/ ApiRawread
    \/ RawreadStep
SpecConnection == InitConnection /\ [][NextConnection]_vars

\* select() with a timeout returns and recv() on a readable socket returns,
\* so a rawread under way takes its next step; a peer that sends at most
\* MaxChunks chunks is one that pauses or closes in the end
SpecConnectionLive == SpecConnection /\ WF_vars(RawreadStep)

(***************************************************************************)
(* The retry loops of cgstats.perform_cycle (cgstats.py 201-238, 310-342,  *)
(* 379-405), each around the classification of sub-responses of a fetched  *)
(* response                                                                *)
(***************************************************************************)
max_retries == 5
retry_delay_short == 3
retry_delay_long == 20

\* cgstats.handle_response(data, command) (cgstats.py 40-93)
cgstats_handle_response(data, cmd) ==
    IF data.t = "None" THEN Raised(Exc("TypeError", "none", "STATUS"))
    ELSE IF ~data.hasStatus THEN Raised(KeyError("STATUS"))
    ELSE IF data.sev = "E" THEN handle_error(data.msg)
    ELSE IF data.sev # "S" THEN Raised(SystemExit("4"))
    ELSE IF data.code = 70 THEN Block(data, "STATS", "STATS")
    ELSE IF data.code = 11 THEN Block(data, "SUMMARY", "SUMMARY[0]")
    ELSE IF data.code = 9 THEN Block(data, "DEVS", "DEVS")
    ELSE IF data.code = 201 THEN Block(data, "TEMPS", "TEMPS")
    ELSE IF data.code = 202 THEN Block(data, "FANS", "FANS")
    ELSE Returned(Payload("RAW", data), FALSE)

\* the try block of a loop: handle_response(response[token][0], token) for
\* the tokens of the loop, from token i on, parts being what is kept so far
RECURSIVE classify_parts(_, _, _, _)
classify_parts(fetched, tokens, i, parts) ==
    IF i > Len(tokens) THEN Returned([t |-> "result", parts |-> parts], TRUE)
    ELSE LET first == First(fetched, tokens[i]) IN
         IF first.exc # NoExc THEN Raised(first.exc)
         ELSE LET r == cgstats_handle_response(first.value, tokens[i]) IN
              IF r.exc # NoExc THEN Raised(r.exc)
              ELSE classify_parts(fetched, tokens, i + 1, parts @@ (tokens[i] :> r.value))

\* a bug: every retry waits the short delay
retry_delay_short_only(error_type) == retry_delay_short

\* the delay of a retry (cgstats.py 218-223, 329-334, 391-396)
retry_delay(error_type) ==
    IF error_type = RETRY_SHORT THEN retry_delay_short
    ELSE IF error_type = RETRY_LONG THEN retry_delay_long
    ELSE retry_delay_short

\* the three loops, by the tokens they classify: the loop for "summary"
\* and the one for "fans" fetch again in the handler, the one for "devs"
\* and "temps" fetches at the start of its try block
Loops == {Command(FALSE, <<"summary">>), Command(FALSE, <<"devs", "temps">>),
          Command(FALSE, <<"fans">>)}
fetch_in_try(loop) == loop.tokens[1] = "devs"

\* the keys the fetch of a loop asks for: api_get_data sends summary+stats,
\* api_get_devinfo devs+temps+fans
fetch_keys(loop) ==
    IF loop.tokens[1] = "summary" THEN <<"summary", "stats">> ELSE <<"devs", "temps", "fans">>

\* _api_command (cgstats.py 25-37) on connection c: send_command, get_resp
\* and the check of the response; a command with a "+" is not looked at for
\* STATUS.  ok is whether sendall() succeeds, io how the read ends, wire
\* what arrives
cgstats_api_command(c, ok, io, wire) ==
    IF send(c, ok) # NoExc THEN Raised(send(c, ok))
    ELSE IF io = "reset" THEN Raised(OSError("recv"))
    ELSE IF io = "exceptional" THEN Raised(RuntimeError("Exceptional condition"))
    ELSE IF Falsy(get_resp(wire)) THEN Raised(RuntimeError("No response returned"))
    ELSE Returned(get_resp(wire), TRUE)

\* api_get_data, api_get_devinfo (cgstats.py 138-153): _api_command, then
\* every key asked for has to be in the response
api_get(keys, c, ok, io, wire) ==
    LET r == cgstats_api_command(c, ok, io, wire) IN
    IF r.exc # NoExc THEN r
    ELSE IF FirstMissing(r.value, keys, 1) # "" THEN Raised(RuntimeError("No key returned"))
    ELSE r

\* what the device puts under a key of a combined reply: nothing, an empty
\* list, or one status object; under a key the loop does not classify, the
\* object good for it
GoodObj(key) ==
    CASE key = "summary" -> Envelope("S", 11, "OK", {"SUMMARY"})
      [] key = "stats" -> Envelope("S", 70, "OK", {"STATS"})
      [] key = "devs" -> Envelope("S", 9, "OK", {"DEVS"})
      [] key = "temps" -> Envelope("S", 201, "OK", {"TEMPS"})
      [] key = "fans" -> Envelope("S", 202, "OK", {"FANS"})
FetchValues(loop, key) ==
    {Missing, ListOf(<<>>), ListOf(<<GoodObj(key)>>)}
      \cup IF key \notin Range(loop.tokens) THEN {}
           ELSE {ListOf(<<o>>) :
                    o \in {NoStatusDict, Envelope("E", 0, "Not Ready", {}),
                           Envelope("E", 0, "miner disconnected", {}),
                           Envelope("E", 0, "Invalid command", {}),
                           Envelope("W", 11, "OK", {"SUMMARY"}),
                           Envelope("S", 70, "OK", {}), Envelope("S", 22, "OK", {})}}

\* a fetch, by what happens to it: <<ok, io, wire>>; the send fails, the
\* read fails, or something arrives
FetchInputs(loop) ==
    {<<FALSE, "data", Silent>>, <<TRUE, "reset", Silent>>, <<TRUE, "exceptional", Silent>>}
      \cup {<<TRUE, "data", w>> :
               w \in {Silent, Garbage, Json(EmptyDict),
                      Json(Envelope("E", 14, "Invalid command", {}))}
                       \cup (IF Len(fetch_keys(loop)) = 2
                             THEN {Json(Map(("summary" :> a) @@ ("stats" :> b))) :
                                     a \in FetchValues(loop, "summary"),
                                     b \in FetchValues(loop, "stats")}
                             ELSE {Json(Map(("devs" :> a) @@ ("temps" :> b) @@ ("fans" :> d))) :
                                     a \in FetchValues(loop, "devs"),
                                     b \in FetchValues(loop, "temps"),
                                     d \in FetchValues(loop, "fans")})}
Fetch(loop, c, in) == api_get(fetch_keys(loop), c, in[1], in[2], in[3])

\* the client after the fetch and the code before the loop (cgstats.py
\* 177-200, 306-308): a loop that classifies what was fetched before it
\* starts with a response whose other keys were read

InitCycle ==
    /\ impl = "MinerAPI"
    /\ server = PyStr(<<"h">>)
    /\ port = PyInt(4028)
    /\ last = "none"
    /\ buffer = <<>>
    /\ received = <<>>
    /\ ensured = NotEnsured
    /\ peer = "up"
    /\ conn = "open"
    /\ pc = "CycleAttempt"
    /\ command \in Loops
    /\ args = Args(0, DefaultDelayShort, DefaultDelayLong, DefaultMaxDelay)
    /\ now = 0
    /\ retry_start_time = 0
    /\ attempt = 0
    /\ response \in
         IF fetch_in_try(command) THEN {None}
         ELSE {r.value :
                 r \in {x \in {Fetch(command, "open", in) : in \in FetchInputs(command)} :
                          /\ x.exc = NoExc
                          /\ \A k \in Range(fetch_keys(command)) \ Range(command.tokens) :
                                x.value.sub[k] = ListOf(<<GoodObj(k)>>)}}
    /\ exc = NoExc
    /\ delay = 0
    /\ result = None
    /\ sent = IF fetch_in_try(command) THEN 0 ELSE 1
    /\ tries = 0
    /\ sleeps = 0
    /\ slept = 0
    /\ prevDelay = 0
    /\ onlyShort = TRUE

\* one pass of "for attempt in range(max_retries)", up to the break, the
\* raise or the call of time.sleep; in is what happens to the fetch of the
\* try block, if the loop has one
CycleAttempt(in) ==
    /\ pc = "CycleAttempt"
    /\ attempt < max_retries
    /\ LET fetched == IF fetch_in_try(command) THEN Fetch(command, conn, in)
                      ELSE Returned(response, TRUE)
           p == IF fetched.exc # NoExc THEN fetched
                ELSE classify_parts(fetched.value, command.tokens, 1, <<>>)
       IN  /\ response' = IF fetched.exc # NoExc THEN response ELSE fetched.value
           /\ sent' = IF fetch_in_try(command) /\ send(conn, in[1]) = NoExc
                      THEN Min(sent + 1, MaxSent) ELSE sent
           /\ tries' = IF fetched.exc # NoExc THEN tries ELSE tries + 1
           /\ exc' = p.exc
           /\ IF p.exc = NoExc
              THEN pc' = "CycleDone" /\ result' = p.value /\ delay' = 0
              ELSE IF /\ p.exc.type = "MinerException"
                      /\ is_retryable(p.exc.error_type)
                      /\ attempt < max_retries - 1
                  THEN /\ pc' = "CycleSleep"
                       /\ delay' = retry_delay(p.exc.error_type)
                       /\ UNCHANGED result
              ELSE pc' = "CycleRaised" /\ delay' = 0 /\ UNCHANGED result
    /\ UNCHANGED <<impl, server, port, last, buffer, received, ensured, peer,
                   conn, command, args, now, retry_start_time, attempt, sleeps, slept,
                   prevDelay, onlyShort>>

\* miner_stats_msg = response['stats'][0]['STATUS'][0]['Msg'] in the handler
\* of the loop for summary (cgstats.py 230-235): the KeyError is caught, the
\* IndexError of an empty list is not
reextract(loop, fetched) ==
    IF loop.tokens[1] = "summary" /\ fetched.sub["stats"].items = <<>>
    THEN Exc("IndexError", "none", "stats")
    ELSE NoExc

\* time.sleep(delay) returns; miner.close(), miner.open(), the fetch of the
\* handler if the loop has one, and the loop goes on
CycleSleepDone(ok, in) ==
    /\ pc = "CycleSleep"
    /\ now' = now + delay
    /\ sleeps' = sleeps + 1
    /\ slept' = slept + delay
    /\ prevDelay' = delay
    /\ delay' = 0
    /\ conn' = open(ok)
    /\ ensured' = Ensured(FALSE, <<"close", "open">>)
    /\ peer' = "up"
    /\ LET f == Fetch(command, open(ok), in)
           e == IF ~ok THEN OSError("connect")
                ELSE IF fetch_in_try(command) THEN NoExc
                ELSE IF f.exc # NoExc THEN f.exc
                ELSE reextract(command, f.value)
       IN  /\ exc' = e
           /\ sent' = IF ok /\ ~fetch_in_try(command) /\ send(open(ok), in[1]) = NoExc
                      THEN 1 ELSE 0
           /\ response' = IF ok /\ ~fetch_in_try(command) /\ f.exc = NoExc
                          THEN f.value ELSE response
           /\ IF e # NoExc
              THEN pc' = "CycleRaised" /\ UNCHANGED attempt
              ELSE /\ pc' = "CycleAttempt"
                   /\ attempt' = attempt + 1
    /\ UNCHANGED <<impl, server, port, last, buffer, received,
                   command, args, retry_start_time, result, tries, onlyShort>>

NextCycle ==
    \/ \E in \in FetchInputs(command) : CycleAttempt(in)
    \/ \E ok \in BOOLEAN : \E in \in FetchInputs(command) : CycleSleepDone(ok, in)
SpecCycle == InitCycle /\ [][NextCycle]_vars

(***************************************************************************)
(* Claims                                                                  *)
(***************************************************************************)
\* elapsed time and remaining time of the invocation, as the claims use them
Elapsed == now - retry_start_time
Remaining == args.max_retry_duration - Elapsed
HoldsSocket == conn \in {"open", "created"}

\* C1: when an attempt of execute_command fails with a MinerException, then
\* if its kind is not RetryShort/RetryLong or the elapsed time has reached
\* max_retry_duration, the exception is raised to the caller and nothing more
\* is opened, sent, read or slept in the invocation; otherwise one backoff
\* sleep begins, and a sleep that returns is followed by exactly one new
\* attempt (pass number tries+1 follows sleep number sleeps).
C1_RaiseOrRetry ==
    [][ /\ (pc \in {"Reading", "Classifying"} /\ exc'.type = "MinerException")
           => IF exc'.error_type \notin {RETRY_SHORT, RETRY_LONG}
                 \/ now' - retry_start_time' >= args'.max_retry_duration
              THEN pc' = "FatalError"
              ELSE pc' = "RetryWait" /\ sleeps' = sleeps /\ tries' = tries
        /\ (pc = "FatalError")
           => pc' = "Idle" /\ conn' = conn /\ sent' = sent
        /\ (pc = "RetryWait" /\ pc' # "FatalError")
           => pc' = "Connecting" /\ sleeps' = sleeps + 1 /\ tries' = tries
        /\ (pc' \in {"Sending", "Reading", "Classifying", "RetryWait"})
           => tries' = sleeps' + 1
      ]_vars
\* a fatal MinerException was raised to the caller while time remained
C1_Witness ==
    /\ pc = "FatalError"
    /\ exc.type = "MinerException"
    /\ exc.error_type = FATAL
    /\ Elapsed < args.max_retry_duration
    /\ sleeps >= 1

\* C2: for every retry the sleep delay equals
\* min(base(kind) * (attempt+1), max_delay, remainingTime), base being
\* initial_delay_short for RetryShort and initial_delay_long for RetryLong,
\* attempt the number of retries already made in the invocation.
C2_DelayFormula ==
    pc = "RetryWait" =>
        LET base == IF exc.error_type = RETRY_SHORT THEN args.initial_delay_short
                    ELSE args.initial_delay_long
        IN  /\ exc.error_type \in {RETRY_SHORT, RETRY_LONG}
            /\ attempt = sleeps
            /\ delay <= base * (attempt + 1)
            /\ delay <= args.max_delay
            /\ delay <= Remaining
            /\ delay \in {base * (attempt + 1), args.max_delay, Remaining}
\* a second retry whose delay is the cap max_delay, below the other two terms
C2_Witness ==
    /\ pc = "RetryWait"
    /\ attempt >= 1
    /\ exc.error_type = RETRY_LONG
    /\ delay = args.max_delay
    /\ delay < Remaining
    /\ delay < args.initial_delay_long * (attempt + 1)

\* C3: at most one request is sent per Open state of the connection, across
\* any sequence of detect_miner_type and execute_command calls and retries:
\* a request execute_command has sent is the only one sent on its socket.
C3_OneRequestPerOpen == pc = "Reading" => sent <= 1

\* C5: at every backoff sleep, elapsed-at-failure + delay <= max_retry_duration,
\* and the sum of all sleeps of one invocation never exceeds max_retry_duration
\* (an invocation that never sleeps, as with a negative max_retry_duration,
\* has no sleep to bound).
C5_SleepWithinDeadline ==
    /\ pc = "RetryWait" => /\ Elapsed + delay <= args.max_retry_duration
                           /\ slept + delay <= args.max_retry_duration
    /\ (pc \in Running \cup Terminal /\ sleeps > 0) => slept <= args.max_retry_duration
\* max_retry_duration=5, an empty response (RetryLong, base 10): the sleep is
\* cut to the time that remains
C5_Witness ==
    /\ pc = "RetryWait"
    /\ args.max_retry_duration = 5
    /\ exc = MinerException("No response returned", RETRY_LONG)
    /\ args.initial_delay_long = 10
    /\ delay = 5 - Elapsed
    /\ delay > 0

\* C7: whenever execute_command returns a result, the connection has been
\* closed: the client holds no open socket at the return.
C7_ClosedOnSuccess == pc = "Success" => ~HoldsSocket /\ conn = "closed"
\* a result was returned
C7_Witness == pc = "Success" /\ result # None /\ conn = "closed" /\ sent >= 1

\* C8: if a KeyboardInterrupt is raised during the backoff sleep, the
\* connection is closed before the interrupt reaches the caller.
C8_ClosedOnInterrupt ==
    (pc = "FatalError" /\ exc.type = "KeyboardInterrupt") => ~HoldsSocket

\* C9: when a connection-level error (connect, read or write failure)
\* interrupts an attempt, no open socket is left when the error reaches the
\* caller.
C9_ClosedOnConnectionError ==
    (pc = "FatalError" /\ exc.type = "OSError") => ~HoldsSocket

\* the replies that give no response: nothing, no JSON, an empty object
EmptyReplies == {Silent, Garbage, Json(EmptyDict)}

\* C10: an empty or absent response (nothing read, data that does not parse,
\* an empty object) is a RetryLong condition inside execute_command: while
\* time remains it leads to the backoff sleep with base initial_delay_long,
\* never to a result or to a non-retryable error.
C10_EmptyIsRetryLong ==
    [][ (\E dt \in 1..MaxIoTime, w \in EmptyReplies :
            Reading("data", w, dt))
        => /\ exc'.type = "MinerException"
           /\ exc'.error_type = RETRY_LONG
           /\ IF now' - retry_start_time' < args'.max_retry_duration
              THEN /\ pc' = "RetryWait"
                   /\ delay' = Min(Min(args'.initial_delay_long * (attempt' + 1),
                                       args'.max_delay),
                                   args'.max_retry_duration - (now' - retry_start_time'))
              ELSE pc' = "FatalError"
      ]_vars

\* C4: every execute_command invocation ends in Success (a result is
\* returned) or FatalError (an exception is raised): the loop Connecting ->
\* Sending -> Reading -> Classifying -> RetryWait does not repeat forever.
C4_Terminates == [](pc \in Running => <>(pc \in Terminal))
\* an invocation that went round the loop three times has ended
C4_Witness == pc \in Terminal /\ sleeps >= 3 /\ args.max_retry_duration > 0

\* C6: for repeated RetryShort failures with initial_delay_short=1 and
\* max_delay=60, while the remaining time does not bind, the k-th delay is
\* min(k, 60): 1,2,3,...,60,60,..., non-decreasing and never above max_delay.
C6_LinearCapped ==
    (/\ pc = "RetryWait"
     /\ onlyShort
     /\ args.initial_delay_short = 1
     /\ args.max_delay = DefaultMaxDelay
     /\ Remaining >= Min(sleeps + 1, DefaultMaxDelay))
    => /\ delay = Min(sleeps + 1, DefaultMaxDelay)
       /\ delay >= prevDelay
       /\ delay <= DefaultMaxDelay
       /\ sleeps >= 1 => prevDelay = Min(sleeps, DefaultMaxDelay)
\* the 62nd delay is 60, after a 61st of 60
C6_Witness ==
    /\ pc = "RetryWait"
    /\ onlyShort
    /\ sleeps = 61
    /\ delay = 60
    /\ prevDelay = 60
    /\ Remaining > 60

\* C11: for a combined command, a decoded response that lacks a requested
\* token key is a RetryShort condition: while time remains it leads to the
\* backoff sleep with base initial_delay_short, never to an immediate
\* non-retryable failure.
C11_MissingKeyIsRetryShort ==
    [][ (/\ command.combined
         /\ \E dt \in 1..MaxIoTime, w \in CombinedReplies :
               /\ ~Falsy(get_resp(w))
               /\ FirstMissing(get_resp(w), command.tokens, 1) # ""
               /\ Reading("data", w, dt))
        => /\ exc'.type = "MinerException"
           /\ exc'.error_type = RETRY_SHORT
           /\ IF now' - retry_start_time' < args'.max_retry_duration
              THEN /\ pc' = "RetryWait"
                   /\ delay' = Min(Min(args'.initial_delay_short * (attempt' + 1),
                                       args'.max_delay),
                                   args'.max_retry_duration - (now' - retry_start_time'))
              ELSE pc' = "FatalError"
      ]_vars

\* C12: whenever execute_command returns for a combined command, the keys of
\* the result mapping are exactly the requested tokens; a partial mapping is
\* never returned.
C12_AllTokensOrFail ==
    (pc = "Success" /\ command.combined)
    => /\ result.t = "result"
       /\ DOMAIN result.parts = Range(command.tokens)
\* a combined command returned a mapping with both of its tokens
C12_Witness ==
    /\ pc = "Success"
    /\ command = SummaryStats
    /\ result.t = "result"
    /\ DOMAIN result.parts = {"summary", "stats"}
    /\ result.parts["stats"].block = "STATS"

\* C14: every classification failure and retry-exhaustion failure reached
\* inside execute_command is delivered to the caller as a raised error: the
\* client never asks for the process to end (sys.exit).
C14_NeverExitsProcess == pc = "FatalError" => exc.type # "SystemExit"

\* C15: a response whose severity is present but is neither "S" nor "E" is
\* fatal: no payload is returned for it and it never enters the retry path.
C15_OtherSeverityIsFatal ==
    [][ (/\ pc = "Classifying"
         /\ ~command.combined
         /\ response.hasStatus
         /\ response.sev \notin {"S", "E"})
        => /\ pc' = "FatalError"
           /\ result' = None
           /\ exc' # NoExc
           /\ exc'.error_type \notin {RETRY_SHORT, RETRY_LONG}
           /\ delay' = 0
      ]_vars
\* a reply of another severity ended the invocation while time remained
C15_Witness ==
    /\ pc = "FatalError"
    /\ exc = SystemExit("4")
    /\ result = None
    /\ Elapsed < args.max_retry_duration

\* the replies that decode to a non-empty object without the key STATUS: to
\* a single command, and to the combined command with every token in them
NoStatusSingle ==
    {w : w \in {x \in SingleReplies : ~Falsy(get_resp(x)) /\ ~get_resp(x).hasStatus}}
NoStatusCombined ==
    {w : w \in {x \in CombinedReplies :
                  /\ ~Falsy(get_resp(x))
                  /\ ~get_resp(x).hasStatus
                  /\ \A k \in Range(SummaryStats.tokens) : HasKey(get_resp(x), k)}}

\* C18: a decoded response to a single command that has no STATUS key is a
\* fatal shape violation, never retried; the response to a combined command
\* is accepted by api_command without a top-level STATUS key.
C18_ShapeValidation ==
    [][ pc = "Reading" =>
          \A w \in IF command.combined THEN NoStatusCombined ELSE NoStatusSingle :
          Reading("data", w, now' - now)
          => IF ~command.combined
             THEN /\ exc' = MinerException("Unrecognized response, no STATUS", FATAL)
                  /\ pc' = "FatalError"
             ELSE /\ pc' = "Classifying"
                  /\ response' = get_resp(w)
                  /\ exc' = exc
      ]_vars
\* a single command was answered without STATUS, and the call ended with a
\* fatal MinerException while time remained
C18_Witness ==
    /\ pc = "FatalError"
    /\ ~command.combined
    /\ exc = MinerException("Unrecognized response, no STATUS", FATAL)
    /\ Elapsed < args.max_retry_duration
    /\ sleeps = 0

\* the messages in which "not ready" occurs in some letter case, and those in
\* which "disconnected" does
NotReadyMsgs == {"Not Ready", "NOT READY", "not ready", "Disconnected, not ready"}
DisconnectedMsgs == {"miner disconnected", "DISCONNECTED", "Disconnected, not ready"}

\* C13: for a response whose first status has severity Error, the classifier
\* raises RetryShort if the message matches "not ready" in any letter case,
\* else RetryLong if it matches "disconnected", else a Fatal error; the
\* error raised carries the message of the device.
C13_ErrorClassification ==
    (/\ pc \in {"ClassifiedBase", "ClassifiedBOS"}
     /\ ~Falsy(response)
     /\ response.hasStatus
     /\ response.sev = "E")
    => /\ exc.type = "MinerException"
       /\ exc.msg = response.msg
       /\ exc.error_type = IF response.msg \in NotReadyMsgs THEN RETRY_SHORT
                           ELSE IF response.msg \in DisconnectedMsgs THEN RETRY_LONG
                           ELSE FATAL
       /\ result = None

\* C16: for a Success response the base classifier returns the first element
\* of the SUMMARY block for Code 11, the STATS block for Code 70, the DEVS
\* list for Code 9, each recognized; for any other code it returns the whole
\* decoded object, not recognized, and does not raise.
C16_SuccessCodes ==
    (/\ pc = "ClassifiedBase"
     /\ ~Falsy(response)
     /\ response.hasStatus
     /\ response.sev = "S")
    => /\ (response.code = 11 /\ "SUMMARY" \in response.blocks)
          => exc = NoExc /\ result = Tuple(Payload("SUMMARY[0]", response), TRUE)
       /\ (response.code = 70 /\ "STATS" \in response.blocks)
          => exc = NoExc /\ result = Tuple(Payload("STATS", response), TRUE)
       /\ (response.code = 9 /\ "DEVS" \in response.blocks)
          => exc = NoExc /\ result = Tuple(Payload("DEVS", response), TRUE)
       /\ response.code \notin {11, 70, 9}
          => exc = NoExc /\ result = Tuple(Payload("RAW", response), FALSE)
\* a Code 11 reply gave the first element of its SUMMARY block
C16_Witness ==
    /\ pc = "ClassifiedBase"
    /\ response.t = "dict"
    /\ response.sev = "S"
    /\ response.code = 11
    /\ result = Tuple(Payload("SUMMARY[0]", response), TRUE)

\* C17: for a Success response the base classifier leaves unrecognized, the
\* BOSminer classifier returns the TEMPS block for Code 201 and the FANS
\* block for Code 202, each recognized; for every other such code it
\* returns the whole decoded object, not recognized, and does not raise.
C17_BOSminerCodes ==
    (/\ pc = "ClassifiedBOS"
     /\ ~Falsy(response)
     /\ response.hasStatus
     /\ response.sev = "S"
     /\ response.code \notin {11, 70, 9})
    => /\ (response.code = 201 /\ "TEMPS" \in response.blocks)
          => exc = NoExc /\ result = Tuple(Payload("TEMPS", response), TRUE)
       /\ (response.code = 202 /\ "FANS" \in response.blocks)
          => exc = NoExc /\ result = Tuple(Payload("FANS", response), TRUE)
       /\ response.code \notin {201, 202}
          => exc = NoExc /\ result = Tuple(Payload("RAW", response), FALSE)
\* a Code 202 reply with a FANS key gave the FANS block, recognized
C17_Witness ==
    /\ pc = "ClassifiedBOS"
    /\ response.t = "dict"
    /\ response.sev = "S"
    /\ response.code = 202
    /\ "FANS" \in response.blocks
    /\ result = Tuple(Payload("FANS", response), TRUE)

\* C19: encoding the command "summary" with no parameter in the classic
\* dialect gives a request object with the single key command = "summary"
\* (no param and no params key), serialized, followed by exactly one
\* newline, as bytes.
C19_SummaryRequest ==
    (/\ pc = "EncodedClassic"
     /\ command.tokens[1] = "summary"
     /\ args.params = None)
    => /\ result.t = "bytes"
       /\ result.newlines = 1
       /\ result.text.t = "json"
       /\ DOMAIN result.text.obj = {"command"}
       /\ result.text.obj["command"] = PyStr("summary")

\* the parameter part of a request object
ParamPart(d) == [k \in DOMAIN d \cap {"param", "params"} |-> d[k]]

\* C20: in both encoders the parameter is under the key "param" when it is a
\* str and under "params" otherwise, never under both, and the branch is the
\* same in the two dialects: the envelopes differ only in command against
\* id, jsonrpc, method.
C20_ParamKey ==
    pc \in {"EncodedClassic", "EncodedKawpow"}
    => LET d == result.text.obj
           p == args.params
           c == command.tokens[1]
       IN  /\ IF p.t = "str"
              THEN "param" \in DOMAIN d /\ d["param"] = p /\ "params" \notin DOMAIN d
              ELSE "params" \in DOMAIN d /\ d["params"] = p /\ "param" \notin DOMAIN d
           /\ IF pc = "EncodedClassic"
              THEN /\ DOMAIN d \ {"param", "params"} = {"command"}
                   /\ d["command"] = PyStr(c)
              ELSE /\ DOMAIN d \ {"param", "params"} = {"id", "jsonrpc", "method"}
                   /\ d["id"] = PyInt(0) /\ d["jsonrpc"] = PyStr("2.0") /\ d["method"] = PyStr(c)
           /\ ParamPart(json("classic", c, p).obj) = ParamPart(json("kawpow", c, p).obj)
\* a KawPow request with a str parameter carries it under "param", and was
\* sent on the open socket
C20_Witness ==
    /\ pc = "EncodedKawpow"
    /\ conn = "open"
    /\ exc = NoExc
    /\ sent = 1
    /\ args.params = PyStr("0,freq,500")
    /\ DOMAIN result.text.obj = {"id", "jsonrpc", "method", "param"}
    /\ result.text.obj["param"] = PyStr("0,freq,500")

\* C21: detect_miner_type never raises: whatever the device does and whatever
\* state the connection is in, the call ends by returning one of 'bosminer',
\* 'cgminer', 'unknown'.
C21_DetectNeverRaises ==
    pc = "Detected"
    => /\ exc = NoExc
       /\ result \in {PyStr("bosminer"), PyStr("cgminer"), PyStr("unknown")}

\* the dialect the markers of a version block stand for
DialectOf(v) ==
    IF v \in {"BOSer", "both"} THEN "bosminer"
    ELSE IF v = "CGMiner" THEN "cgminer"
    ELSE "unknown"

\* C22: detect_miner_type makes a single attempt: it sends one "version"
\* request on the connection as it is, without sleeping, reopening or
\* resending, and when the reply decodes to a version block the result is
\* 'bosminer' if the marker BOSer is present, otherwise 'cgminer' if the
\* marker CGMiner is present, otherwise 'unknown'.
C22_DetectSingleAttempt ==
    [][ pc = "Idle" =>
          \A ok \in BOOLEAN, io \in ReadEnds, w \in VersionReplies :
             DetectMinerType(ok, io, w)
             => /\ command' = Version
                /\ conn' = conn
                /\ now' = now
                /\ sleeps' = 0 /\ tries' = 0 /\ attempt' = 0
                /\ sent' = IF conn = "open" /\ ok THEN Min(sent + 1, MaxSent) ELSE sent
                /\ (/\ conn = "open" /\ ok /\ io = "data"
                    /\ ~Falsy(get_resp(w))
                    /\ get_resp(w).hasStatus
                    /\ "VERSION" \in get_resp(w).blocks)
                   => /\ exc' = NoExc
                      /\ result' = PyStr(DialectOf(get_resp(w).version))
      ]_vars
\* a detection on an open connection found the marker BOSer after one request
C22_Witness ==
    /\ pc = "Detected"
    /\ conn = "open"
    /\ sent = 1
    /\ exc = NoExc
    /\ result = PyStr("bosminer")

\* C30: the rules for Error messages are tried in the order of the table and
\* the first match decides: an Error message in which both "Not ready" and
\* "Disconnected" are found is a RetryShort condition, never RetryLong.
C30_FirstMatchWins ==
    (/\ pc \in {"ClassifiedBase", "ClassifiedBOS"}
     /\ ~Falsy(response)
     /\ response.hasStatus
     /\ response.sev = "E"
     /\ re_search("Not ready", response.msg)
     /\ re_search("Disconnected", response.msg))
    => /\ exc.type = "MinerException"
       /\ exc.error_type = RETRY_SHORT
\* an Error reply "Disconnected, not ready" was classified
C30_Witness ==
    /\ pc = "ClassifiedBase"
    /\ ~Falsy(response)
    /\ response.hasStatus
    /\ response.sev = "E"
    /\ response.msg = "Disconnected, not ready"
    /\ exc.error_type = RETRY_SHORT

\* C23: close() is idempotent: called on a client that was never opened, or
\* again on one that is already closed, it does not raise, and after every
\* close() the connection is Closed: is_connected() is false whatever the
\* probe reports, and another close() changes nothing.
C23_CloseIdempotent ==
    [][ (pc \in Methods /\ ApiClose)
        => /\ exc' = NoExc
           /\ conn' \in {"none", "closed"}
           /\ \A probe \in Probes : ~is_connected(conn', probe)
           /\ close(conn') = conn'
           /\ (conn \in {"none", "closed"} => conn' = conn)
      ]_vars
\* close() was called twice in a row on a client that had been opened
C23_Witness ==
    /\ pc = "close"
    /\ last = "close"
    /\ conn = "closed"
    /\ exc = NoExc

\* C24: a connection is never read from or written to while Closed (never
\* opened, or closed after being open): hasdata, rawread and send /
\* send_command then raise instead of performing I/O (nothing is sent,
\* nothing is received), and the state of the connection stays as it is.
C24_NoIoWhileClosed ==
    [][ (conn = "none" \/ conn = "closed")
        => /\ (pc' \in {"hasdata", "send", "rawread", "RawreadFirst", "RawreadMore"}
               => (/\ conn' = conn
                   /\ sent' = sent
                   /\ received' = <<>>
                   /\ result' = None))
           /\ (pc' \in {"hasdata", "send"} => exc' # NoExc)
           /\ pc' # "RawreadMore"
           /\ ((pc \in Methods /\ pc' = "rawread") => exc' # NoExc)
           /\ (pc = "RawreadFirst" => (pc' = "rawread" /\ exc' # NoExc))
      ]_vars
\* rawread was called on a socket that had been closed, and raised
C24_Witness ==
    /\ pc = "rawread"
    /\ conn = "closed"
    /\ exc # NoExc
    /\ received = <<>>
    /\ sent = 0

\* C25: is_connected() returns true only if a socket exists, its descriptor
\* is valid and the zero-timeout probe reports the socket writable; a probe
\* that raises yields false, no exception reaches the caller, and the call
\* never changes the connection.
C25_IsConnected ==
    [][ (pc \in Methods)
        => \A probe \in Probes :
              ApiIsConnected(probe)
              => /\ exc' = NoExc
                 /\ conn' = conn
                 /\ result'.t = "bool"
                 /\ result'.b => (conn \in {"created", "open"} /\ probe = "writable")
                 /\ probe \in {"OSError", "ValueError"} => ~result'.b
                 /\ conn \in {"none", "closed"} => ~result'.b
      ]_vars
\* is_connected() answered true on an open connection
C25_Witness ==
    /\ pc = "is_connected"
    /\ conn = "open"
    /\ result = PyBool(TRUE)
    /\ exc = NoExc

\* C26: a client never has a 0 or absent port: constructing MinerAPI with no
\* port (None or 0) and a host specification that carries no port fails with
\* an error, every client that was constructed has a non-zero integer port,
\* and no later operation changes it.
C26_PortMandatory ==
    /\ [](pc # "New"
          => /\ (args.port \in {None, PyInt(0)} /\ PortText(args.server.s) = <<>>)
                => (pc = "ConstructFailed" /\ exc.type = "ValueError")
             /\ pc # "ConstructFailed" => (port.t = "int" /\ port.n # 0))
    /\ [][pc # "New" => (port' = port /\ server' = server)]_vars
\* a client built from "[::1]:42" alone was opened and used to send
C26_Witness ==
    /\ pc = "send"
    /\ args.port = None
    /\ server = PyStr(<<":", ":", "1">>)
    /\ port = PyInt(42)
    /\ exc = NoExc

\* the bytes of a text, and the bytes of a sequence of chunks in order
RECURSIVE Utf8(_)
Utf8(txt) ==
    IF txt = <<>> THEN <<>>
    ELSE (IF Head(txt) = "e-acute" THEN <<"C3", "A9">> ELSE <<Head(txt)>>) \o Utf8(Tail(txt))
RECURSIVE Flatten(_)
Flatten(chunks) == IF chunks = <<>> THEN <<>> ELSE Head(chunks) \o Flatten(Tail(chunks))
\* a message without its terminating NUL byte
WithoutSentinel(bs) ==
    IF bs # <<>> /\ bs[Len(bs)] = "NUL" THEN SubSeq(bs, 1, Len(bs) - 1) ELSE bs

\* C27: rawread returns the empty message if no data arrives within the
\* initial timeout; once data has started, every successful poll appends the
\* bytes it read, in the order of arrival, and the first poll that times out
\* ends the read, returning the concatenation of exactly the chunks received
\* before it (less the terminating NUL).
C27_Framing ==
    [][ (pc \in {"RawreadFirst", "RawreadMore"} /\ conn = "open")
        => /\ \A chunk \in Chunks :
                 (Len(received) < MaxChunks /\ RawreadPoll(TRUE, FALSE, TRUE, chunk))
                 => /\ pc' = "RawreadMore"
                    /\ exc' = NoExc
                    /\ received' = Append(received, chunk)
                    /\ Utf8(buffer') = Flatten(received')
           /\ RawreadPoll(FALSE, FALSE, TRUE, EndOfFile)
              => /\ pc' = "rawread"
                 /\ exc' = NoExc
                 /\ received' = received
                 /\ Utf8(result'.s) = WithoutSentinel(Flatten(received))
      ]_vars

\* C28: after accumulation rawread drops the final byte iff it is the NUL
\* sentinel: exactly one trailing NUL is removed, nothing else is altered,
\* and a message that does not end in NUL is returned as it is.
C28_SentinelStripped ==
    [][ (pc = "RawreadMore" /\ pc' = "rawread" /\ exc' = NoExc)
        => /\ result'.t = "str"
           /\ IF buffer # <<>> /\ buffer[Len(buffer)] = "NUL"
              THEN result'.s \o <<"NUL">> = buffer
              ELSE result'.s = buffer
      ]_vars
\* a message of two NUL bytes was read and came back as one NUL
C28_Witness ==
    /\ pc = "rawread"
    /\ exc = NoExc
    /\ received = << <<"NUL", "NUL">> >>
    /\ buffer = <<"NUL", "NUL">>
    /\ result = PyStr(<<"NUL">>)

\* C29: hasdata(timeout) returns true if data is pending, false on a pure
\* timeout (the socket neither readable nor exceptional), raises on an
\* exceptional condition, also when the socket is readable at the same time,
\* and raises if the connection is Closed.
C29_Hasdata ==
    [][ (pc \in Methods)
        => \A readable \in BOOLEAN, exceptional \in BOOLEAN :
              ApiHasdata(readable, exceptional)
              => /\ conn' = conn
                 /\ IF conn \in {"none", "closed"} THEN exc' # NoExc /\ result' = None
                    ELSE IF exceptional THEN exc'.type = "RuntimeError" /\ result' = None
                    ELSE exc' = NoExc /\ result' = PyBool(readable)
      ]_vars
\* hasdata raised for a socket that was readable and exceptional at once, or
\* exceptional alone
C29_Witness ==
    /\ pc = "hasdata"
    /\ conn = "open"
    /\ exc.type = "RuntimeError"
    /\ result = None

\* C31: the BOSminer classifier refines the base classifier: on every input
\* on which the base classifier raises, it raises the same error; on every
\* input the base classifier recognizes (codes 70, 11, 9) it returns the
\* identical (payload, true); its outcome differs from the base outcome
\* only on inputs the base classifier returns with recognized = false.
C31_BOSRefinesBase ==
    pc = "ClassifiedBOS" =>
        LET base == handle_response(response, command.tokens[1]) IN
        /\ base.exc # NoExc => exc = base.exc /\ result = None
        /\ (base.exc = NoExc /\ base.recognized)
             => exc = NoExc /\ result = Tuple(base.value, TRUE)
        /\ (exc # base.exc \/ (exc = NoExc /\ result # Tuple(base.value, base.recognized)))
             => base.exc = NoExc /\ ~base.recognized
\* the BOSminer classifier gave the outcome of the base one for a reply in
\* the table of the base (Code 11 with a SUMMARY block)
C31_Witness ==
    /\ pc = "ClassifiedBOS"
    /\ ~Falsy(response)
    /\ response.hasStatus
    /\ response.sev = "S"
    /\ response.code = 11
    /\ "SUMMARY" \in response.blocks
    /\ result = Tuple(Payload("SUMMARY[0]", response), TRUE)

\* C37: the severity is checked before the code table: a reply whose
\* severity is not Success never yields a payload, whatever its Code and
\* its data keys, in the base classifier and in the BOSminer classifier.
C37_SeverityBeforeCode ==
    (/\ pc \in {"ClassifiedBase", "ClassifiedBOS"}
     /\ ~Falsy(response)
     /\ response.hasStatus
     /\ response.sev # "S")
    => exc # NoExc /\ result = None
\* the BOSminer classifier raised for an Error reply that carries Code 201
\* and a TEMPS block
C37_Witness ==
    /\ pc = "ClassifiedBOS"
    /\ ~Falsy(response)
    /\ response.hasStatus
    /\ response.sev = "E"
    /\ response.code = 201
    /\ "TEMPS" \in response.blocks
    /\ exc # NoExc
    /\ result = None

\* C32: the retry state is local to one invocation of execute_command: at
\* the entry attempt is 0 and the deadline clock starts at the current time,
\* whatever happened before; within the invocation attempt is never
\* negative, grows by exactly 1 with each completed backoff sleep and
\* changes at no other step; RetryShort and RetryLong failures share it,
\* the delay after n completed sleeps being computed with multiplier n + 1
\* from the base delay of the kind of the failure at hand.
C32_RetryStateLocal ==
    /\ [](attempt >= 0 /\ (pc \in Running \cup Terminal => attempt = sleeps))
    /\ [][ /\ (pc = "Idle" /\ pc' = "Connecting")
                => attempt' = 0 /\ retry_start_time' = now'
           /\ (pc = "RetryWait" /\ pc' = "Connecting") => attempt' = attempt + 1
           /\ (pc \in Running /\ ~(pc = "RetryWait" /\ pc' = "Connecting"))
                => attempt' = attempt
           /\ (pc \in Running /\ pc # "RetryWait" /\ pc' = "RetryWait")
                => delay' = Min(Min(base_delay(exc'.error_type, args) * (sleeps + 1),
                                    args.max_delay),
                                args.max_retry_duration - (now' - retry_start_time)) ]_vars
\* a RetryLong failure after one completed sleep for a RetryShort failure
\* (delay 1 of the set (9, 1, 2, 3)) waits min(2 * 2, 3) = 3
C32_Witness ==
    /\ pc = "RetryWait"
    /\ args = Args(9, 1, 2, 3)
    /\ attempt = 1
    /\ prevDelay = 1
    /\ exc.error_type = RETRY_LONG
    /\ delay = 3

\* the exception raised for token i of a combined command: by response[cmd][0]
\* or by the classification of that sub-result; NoExc if there is none
SubOutcome(i) ==
    LET first == First(response, command.tokens[i]) IN
    IF first.exc # NoExc THEN first.exc
    ELSE self_handle_response(impl, first.value, command.tokens[i]).exc
\* the payload of token i of a combined command
SubPayload(i) ==
    self_handle_response(impl, First(response, command.tokens[i]).value,
                         command.tokens[i]).value

\* C33: for a combined command the sub-results are classified in the order
\* of the tokens of the request, and the first sub-result whose
\* classification raises aborts the attempt: the error is that of the first
\* failing token, nothing is returned (the payloads of the tokens classified
\* before are dropped); only when no token fails is a result returned, with
\* the payload of every token; a retry sends the whole command again.
C33_CombinedAbort ==
    /\ [](pc = "RetryWait" => result = None /\ response = None)
    /\ [][ /\ (pc = "Classifying" /\ command.combined) =>
                LET failing == {i \in 1..Len(command.tokens) : SubOutcome(i) # NoExc} IN
                IF failing = {}
                THEN /\ pc' = "Success"
                     /\ result' = [t |-> "result",
                                   parts |-> [k \in Range(command.tokens) |->
                                       SubPayload(CHOOSE i \in 1..Len(command.tokens) :
                                                      command.tokens[i] = k)]]
                ELSE /\ pc' \in {"RetryWait", "FatalError"}
                     /\ exc' = SubOutcome(CHOOSE i \in failing : \A j \in failing : i <= j)
                     /\ result' = None
           /\ pc \in Running => command' = command
           /\ (pc = "RetryWait" /\ pc' = "Connecting") => response' = None ]_vars
\* a combined command waits for its retry after the classification of a
\* sub-result raised "Not Ready": nothing of the attempt is kept
C33_Witness ==
    /\ pc = "RetryWait"
    /\ command = SummaryStats
    /\ exc = MinerException("Not Ready", RETRY_SHORT)
    /\ result = None
    /\ response = None

\* C34: only a MinerException enters the retry logic of execute_command:
\* any other error raised during an attempt (RuntimeError, OSError,
\* KeyError, ...) is raised to the caller at its first occurrence, with no
\* backoff sleep and no further attempt.
C34_OnlyMinerExceptionRetried ==
    /\ [](pc = "RetryWait" => exc.type = "MinerException")
    /\ [][ /\ (pc \in Running \ {"RetryWait"} /\ exc' # NoExc /\ exc'.type # "MinerException")
                => /\ pc' = "FatalError"
                   /\ sleeps' = sleeps
                   /\ delay' = 0
           /\ (pc = "FatalError" /\ exc.type # "MinerException")
                => pc' = "Idle" /\ tries' = 0 /\ sleeps' = 0 ]_vars
\* the first attempt of a combined command ended with the RuntimeError of an
\* empty sub-response: no sleep was made
C34_Witness ==
    /\ pc = "FatalError"
    /\ impl = "Miners"
    /\ command.combined
    /\ exc = RuntimeError("No response returned")
    /\ tries = 1
    /\ sleeps = 0

\* C35: execute_command starts with an attempt, whatever max_retry_duration
\* is: the deadline is looked at only once an attempt has failed; with
\* max_retry_duration <= 0 there is exactly one attempt and no sleep, the
\* first retryable failure being raised to the caller.
C35_OneAttemptAtLeast ==
    /\ [](/\ (pc \in {"Sending", "Reading", "Classifying", "RetryWait"} \cup Terminal)
               => tries >= 1
          /\ (pc \in Running \cup Terminal /\ args.max_retry_duration <= 0)
               => /\ tries <= 1
                  /\ sleeps = 0
                  /\ slept = 0
                  /\ pc # "RetryWait")
    /\ [][ /\ (pc = "Idle" /\ pc' \notin {"Idle", "Detected"})
                => pc' = "Connecting" /\ exc' = NoExc /\ tries' = 0
           /\ (pc = "Connecting" /\ pc' # "Connecting") => tries' = 1 + tries
           /\ (/\ pc \in Running \ {"RetryWait"}
               /\ exc'.type = "MinerException"
               /\ is_retryable(exc'.error_type))
                => pc \in {"Reading", "Classifying"} /\ tries >= 1 /\ sent >= 1 ]_vars
\* with max_retry_duration = -1 the one attempt was made in full and its
\* retryable failure ("Not Ready") was raised without a sleep
C35_Witness ==
    /\ pc = "FatalError"
    /\ args.max_retry_duration = -1
    /\ exc = MinerException("Not Ready", RETRY_SHORT)
    /\ tries = 1
    /\ sleeps = 0

\* C36: inside execute_command the client has at most one socket in use:
\* the ensure-connection step opens a new socket only when is_connected()
\* returned false, and only after close() was called on the socket before;
\* when is_connected() returned true the step calls neither close() nor
\* open() and the connection stays as it was; no other step of an
\* invocation opens a socket.
C36_OneSocket ==
    [][ /\ pc = "Connecting" =>
            /\ ensured'.connected = (ensured'.calls = <<>>)
            /\ ensured'.connected =>
                 /\ HoldsSocket
                 /\ conn' = conn /\ sent' = sent
            /\ ~ensured'.connected =>
                 /\ ensured'.calls = <<"close", "open">>
                 /\ conn' \in {"open", "created"}
                 /\ sent' = 0
        /\ (pc \in Running /\ pc # "Connecting") =>
            /\ conn' \in {conn, close(conn)}
            /\ ensured' = ensured ]_vars
\* a retry found the socket of the attempt before not connected: it was
\* closed and a new one opened
C36_Witness ==
    /\ pc = "Sending"
    /\ attempt >= 1
    /\ ensured = Ensured(FALSE, <<"close", "open">>)
    /\ conn = "open"
    /\ sent = 0

\* C38: a rawread under way ends (it returns or raises) once the peer stays
\* silent for a poll or has closed its end; in the loop a zero-length read
\* ends the read as a poll timeout does, with the text accumulated so far
\* (less one trailing NUL) returned; rawread returns only after a timeout
\* or a zero-length read, so it does not return while every poll finds
\* bytes of the peer.
C38_RawreadTerminates ==
    /\ [](pc \in {"RawreadFirst", "RawreadMore"} => <>(pc = "rawread"))
    /\ [][ /\ (pc = "RawreadMore" /\ peer' = "closed" /\ exc' = NoExc)
                => pc' = "rawread" /\ result' = PyStr(strip_nul(buffer))
           /\ (pc = "RawreadMore" /\ pc' = "rawread" /\ exc' = NoExc)
                => /\ received' = received
                   /\ result' = PyStr(strip_nul(buffer))
           /\ (pc = "RawreadFirst" /\ pc' = "rawread" /\ exc' = NoExc)
                => received' = received /\ result' = PyStr(<<>>)
           /\ (pc \in {"RawreadFirst", "RawreadMore"} /\ received' # received)
                => pc' = "RawreadMore" \/ exc' # NoExc ]_vars
\* the peer sent "a" and closed its end: the zero-length read ended the
\* read and "a" was returned
C38_Witness ==
    /\ pc = "rawread"
    /\ exc = NoExc
    /\ peer = "closed"
    /\ received = << <<"a">> >>
    /\ result = PyStr(<<"a">>)

\* C39: each retry loop of perform_cycle classifies what was fetched at most
\* max_retries = 5 times: a retryable MinerException in one of the first
\* four passes is followed by a sleep of 3 (RetryShort) or 20 (RetryLong)
\* seconds, the same in every pass, then by close, open and a new fetch
\* before the next classification; a MinerException that is not retryable,
\* and the failure of the fifth pass, are raised with no sleep and no
\* further fetch.
C39_CycleRetries ==
    /\ [](/\ tries <= max_retries
          /\ sleeps <= max_retries - 1
          /\ pc \in {"CycleAttempt", "CycleSleep", "CycleDone"} => attempt = sleeps
          /\ pc = "CycleSleep"
               => /\ attempt < max_retries - 1
                  /\ exc.type = "MinerException"
                  /\ exc.error_type = RETRY_SHORT => delay = 3
                  /\ exc.error_type = RETRY_LONG => delay = 20)
    /\ [][ /\ (pc = "CycleAttempt" /\ exc'.type = "MinerException")
                => IF is_retryable(exc'.error_type) /\ attempt < 4
                   THEN pc' = "CycleSleep"
                   ELSE /\ pc' = "CycleRaised"
                        /\ sleeps' = sleeps
                        /\ conn' = conn
           /\ (pc = "CycleAttempt" /\ ~fetch_in_try(command))
                => sent' = sent /\ response' = response
           /\ (pc = "CycleSleep" /\ pc' = "CycleAttempt")
                => /\ conn' = "open"
                   /\ ensured' = Ensured(FALSE, <<"close", "open">>)
                   /\ attempt' = attempt + 1
                   /\ now' = now + delay
                   /\ sent' = IF fetch_in_try(command) THEN 0 ELSE 1
           /\ (pc = "CycleAttempt" /\ fetch_in_try(command) /\ tries' = tries + 1)
                => sent' = 1 ]_vars
\* the fifth classification of the loop for "summary" failed with a
\* retryable error after four sleeps, and the error was raised
C39_Witness ==
    /\ pc = "CycleRaised"
    /\ command.tokens = <<"summary">>
    /\ tries = 5
    /\ sleeps = 4
    /\ exc.type = "MinerException"
    /\ is_retryable(exc.error_type)
====
